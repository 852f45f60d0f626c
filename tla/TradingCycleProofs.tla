------------------------- MODULE TradingCycleProofs -------------------------
(***************************************************************************)
(* Theorems about the trading cycle, for every value of its constants.     *)
(***************************************************************************)
EXTENDS TradingCycle, TLAPS

-----------------------------------------------------------------------------
(* The state machine. *)

\* A transition between known states for a known reason keeps the record's type.
LEMMA TransitionType ==
  ASSUME NEW x \in Contexts, NEW new \in States, NEW c \in Nat,
         NEW kind \in TransitionKinds, NEW trade \in Buys \cup Sells \cup {""}
  PROVE  Transition(x, new, c, kind, trade) \in Contexts
BY DEF Transition, Contexts

\* The state the book calls for is none of the transient ones.
LEMMA RestingType ==
  ASSUME NEW active \in BOOLEAN, NEW has \in BOOLEAN
  PROVE  Resting(active, has) \in {"WAIT_REENTRY", "ACCUMULATING", "IDLE"}
BY DEF Resting

\* Whatever state the machine was in, a synchronisation leaves it in COOLDOWN,
\* with time left, or in the state that the book calls for.
LEMMA SyncResult ==
  ASSUME NEW x \in Contexts, NEW c \in Nat,
         NEW active \in BOOLEAN, NEW has \in BOOLEAN
  PROVE  LET y == SyncCycle(x, c, active, has)
         IN /\ y \in Contexts
            /\ y.state = "COOLDOWN" => y = x /\ CooldownExit(x, c) = ""
            /\ y.state = "COOLDOWN" \/ y.state = Resting(active, has)
<1> DEFINE resting == Resting(active, has)
<1>1. resting \in {"WAIT_REENTRY", "ACCUMULATING", "IDLE"}
  BY RestingType
<1>2. resting \in States /\ resting # "COOLDOWN"
  BY <1>1 DEF States
<1>3. CASE x.state = "COOLDOWN"
  <2>1. CASE CooldownExit(x, c) = ""
    BY <1>3, <2>1 DEF SyncCycle
  <2>2. CASE CooldownExit(x, c) # ""
    <3>1. CooldownExit(x, c) \in TransitionKinds
      BY <2>2 DEF CooldownExit, TransitionKinds
    <3>2. SyncCycle(x, c, active, has)
            = Transition(x, resting, c, CooldownExit(x, c), "")
      BY <1>3, <2>2 DEF SyncCycle
    <3>3. Transition(x, resting, c, CooldownExit(x, c), "") \in Contexts
      BY <1>2, <3>1, TransitionType
    <3>4. Transition(x, resting, c, CooldownExit(x, c), "").state = resting
      BY <1>2, <1>3 DEF Transition
    <3> QED BY <1>2, <3>2, <3>3, <3>4
  <2> QED BY <2>1, <2>2
<1>4. CASE x.state # "COOLDOWN"
  <2>1. CASE x.state = resting
    BY <1>2, <1>4, <2>1 DEF SyncCycle, Settles
  <2>2. CASE x.state # resting
    <3>1. SettleKind(x, resting) \in TransitionKinds
      BY DEF SettleKind, TransitionKinds
    <3>2. SyncCycle(x, c, active, has)
            = Transition(x, resting, c, SettleKind(x, resting), "")
      BY <1>4, <2>2 DEF SyncCycle, Settles
    <3>3. Transition(x, resting, c, SettleKind(x, resting), "") \in Contexts
      BY <1>2, <3>1, TransitionType
    <3>4. Transition(x, resting, c, SettleKind(x, resting), "").state = resting
      BY <2>2 DEF Transition
    <3> QED BY <1>2, <3>2, <3>3, <3>4
  <2> QED BY <2>1, <2>2
<1> QED BY <1>3, <1>4

\* The time in a state is what has passed since it was entered, or more.
LEMMA TimeInStateBound ==
  ASSUME NEW x, x.entered \in Nat, NEW c \in Nat
  PROVE  TimeInState(x, c) \in Nat /\ c - x.entered <= TimeInState(x, c)
BY DEF TimeInState

\* A time below the limits that are set, none of them at zero, is below all.
LEMMA BelowLimits ==
  ASSUME NEW spent \in Int, NEW t \in Nat, spent <= t,
         ~(MaxCooldownCycles > 0 /\ t >= MaxCooldownCycles),
         ~(CooldownCycles <= 0), ~(t >= CooldownCycles)
  PROVE  \A limit \in {CooldownCycles, MaxCooldownCycles} \ {0} : spent < limit
BY StateMachineAssumption

\* A cooldown that a synchronisation keeps is within both of its limits.
LEMMA KeptCooldown ==
  ASSUME NEW x \in Contexts, NEW c \in Nat
  PROVE  CooldownExit(x, c) = "" =>
           \A limit \in {CooldownCycles, MaxCooldownCycles} \ {0} :
             c - x.entered < limit
<1>0. x.entered \in Nat
  BY DEF Contexts
<1>1. x.entered \in Nat /\ c - x.entered \in Int
  BY <1>0
<1>2. TimeInState(x, c) \in Nat /\ c - x.entered <= TimeInState(x, c)
  BY <1>1, TimeInStateBound
<1>3. CooldownExit(x, c) = "" =>
        /\ ~(MaxCooldownCycles > 0 /\ TimeInState(x, c) >= MaxCooldownCycles)
        /\ ~(CooldownCycles <= 0)
        /\ ~(TimeInState(x, c) >= CooldownCycles)
  BY DEF CooldownExit
<1> QED BY <1>1, <1>2, <1>3, BelowLimits

\* The preparation of a sell and the handler of a buy keep the record's type.
LEMMA HandlerTypes ==
  ASSUME NEW x \in Contexts, NEW c \in Nat,
         NEW trade \in Buys \cup Sells \cup {""}
  PROVE  /\ PrepareDistribution(x, c, trade) \in Contexts
         /\ HandleBuyFill(x, c, trade) \in Contexts
BY TransitionType
DEF PrepareDistribution, HandleBuyFill, States, TransitionKinds

\* So does the handler of a sell.
LEMMA SellHandlerTypes ==
  ASSUME NEW x \in Contexts, NEW c \in Nat,
         NEW trade \in Buys \cup Sells \cup {""},
         NEW active \in BOOLEAN, NEW has \in BOOLEAN
  PROVE  HandleSellFill(x, c, trade, active, has) \in Contexts
<1>1. Resting(active, has) \in States
  BY RestingType DEF States
<1> QED BY <1>1, TransitionType DEF HandleSellFill, TransitionKinds

\* So does the entry into COOLDOWN.
LEMMA CooldownEntryType ==
  ASSUME NEW x \in Contexts, NEW c \in Nat, NEW streak \in Nat
  PROVE  MaybeEnterCooldown(x, c, streak) \in Contexts
<1> DEFINE y == Transition(x, "COOLDOWN", c, "loss_streak_limit", "")
<1>1. y \in Contexts
  BY TransitionType DEF States, TransitionKinds
<1>2. c + CooldownCycles \in Nat
  BY StateMachineAssumption
<1>3. [y EXCEPT !.until = c + CooldownCycles] \in Contexts
  <2> HIDE DEF y
  <2> QED BY <1>1, <1>2 DEF Contexts
<1> QED BY <1>3 DEF MaybeEnterCooldown

-----------------------------------------------------------------------------
(* Amounts. *)

\* The smaller and the greater of two amounts are amounts, and bound both.
LEMMA LeastGreatest ==
  ASSUME NEW a \in Int, NEW b \in Int
  PROVE  /\ Least(a, b) \in Int /\ Least(a, b) <= a /\ Least(a, b) <= b
         /\ Least(a, b) \in {a, b}
         /\ Greatest(a, b) \in Int /\ Greatest(a, b) >= a /\ Greatest(a, b) >= b
         /\ Greatest(a, b) \in {a, b}
BY DEF Least, Greatest

\* What is left of a budget is an amount.
LEMMA RemainingType ==
  ASSUME NEW e \in Episodes
  PROVE  Remaining(e) \in Nat
<1>1. e.budget \in Nat /\ e.spent \in Nat
  BY DEF Episodes
<1>2. e.budget - e.spent \in Int
  BY <1>1
<1> QED BY <1>2, LeastGreatest DEF Remaining

\* No more may be sold than is held.
LEMMA SellableType ==
  ASSUME TypeOK, NEW reason
  PROVE  Sellable(reason) \in Nat /\ Sellable(reason) <= base
<1>1. tick.reserve \in Nat /\ base \in Nat
  BY DEF TypeOK, Ticks
<1>2. PreservedBase \in Int
  BY CycleAssumption DEF PreservedBase
<1>3. SellFloor(reason) \in Nat
  <2>1. /\ Greatest(PreservedBase, tick.reserve) \in Int
        /\ Greatest(PreservedBase, tick.reserve) >= tick.reserve
    BY <1>1, <1>2 DEF Greatest
  <2>2. Greatest(PreservedBase, tick.reserve) \in Nat
    BY <1>1, <2>1
  <2> QED BY <1>1, <2>2 DEF SellFloor
<1> DEFINE rest == base - SellFloor(reason)
<1>4. rest \in Int /\ rest <= base
  BY <1>1, <1>3
<1> HIDE DEF rest
<1>5. Greatest(rest, 0) \in {rest, 0} /\ Greatest(rest, 0) >= 0
  BY <1>4, LeastGreatest
<1>6. Greatest(rest, 0) \in Nat /\ Greatest(rest, 0) <= base
  BY <1>1, <1>4, <1>5
<1> QED BY <1>6 DEF Sellable, rest

\* Capping a sell makes it no greater and leaves no more than is held to it.
LEMMA CapSellBound ==
  ASSUME TypeOK, NEW reason, NEW size \in Int, NEW premium \in Nat
  PROVE  /\ CapSell(reason, size, premium) \in Int
         /\ CapSell(reason, size, premium) - premium <= base
         /\ size \in Nat => CapSell(reason, size, premium) \in Nat
<1>1. /\ base \in Nat
      /\ Sellable(reason) \in Nat /\ Sellable(reason) <= base
  BY SellableType DEF TypeOK
<1>2. CASE Sellable(reason) = 0
  BY <1>1, <1>2 DEF CapSell
<1>3. CASE Sellable(reason) # 0
  <2> DEFINE most == Sellable(reason) + premium
  <2>1. most \in Nat /\ most - premium <= base
    BY <1>1
  <2> HIDE DEF most
  <2>2. /\ Least(size, most) \in Int /\ Least(size, most) <= most
        /\ Least(size, most) \in {size, most}
    BY <2>1, LeastGreatest
  <2>3. CapSell(reason, size, premium) = Least(size, most)
    BY <1>3 DEF CapSell, most
  <2> QED BY <1>1, <2>1, <2>2, <2>3
<1> QED BY <1>2, <1>3

\* A sell is cut into at least one chunk.
LEMMA ChunkSizesType ==
  ASSUME NEW total \in Nat
  PROVE  ChunkSizes(total) \in Seq(Int) /\ ChunkSizes(total) # <<>>
<1> DEFINE n == (total + MaxTrade - 1) \div MaxTrade
<1>1. MaxTrade \in Nat \ {0}
  BY CycleAssumption, ReentryAssumption
<1>2. CASE total <= MaxTrade
  <2>1. ChunkSizes(total) = <<total>>
    BY <1>2 DEF ChunkSizes
  <2> QED BY <2>1
<1>3. CASE ~(total <= MaxTrade) /\ total \div n < MinNotional
  <2>1. ChunkSizes(total) = <<MaxTrade>>
    BY <1>3 DEF ChunkSizes
  <2> QED BY <1>1, <2>1
<1>4. CASE ~(total <= MaxTrade) /\ ~(total \div n < MinNotional)
  <2> DEFINE part(i) == (i * total) \div n - ((i - 1) * total) \div n
  <2>1. n \in Nat \ {0}
    BY <1>1, <1>4
  <2>2. ChunkSizes(total) = [i \in 1..n |-> part(i)]
    BY <1>4 DEF ChunkSizes
  <2> HIDE DEF n
  <2>3. \A i \in 1..n : part(i) \in Int
    BY <2>1
  <2> HIDE DEF part
  <2>4. [i \in 1..n |-> part(i)] \in Seq(Int)
    BY <2>1, <2>3
  <2>5. Len([i \in 1..n |-> part(i)]) = n
    BY <2>1
  <2> QED BY <2>1, <2>2, <2>4, <2>5
<1> QED BY <1>2, <1>3, <1>4

\* The first zone of those that are due is one of them.
LEMMA FirstZoneType ==
  ASSUME NEW zones \in SUBSET Zones, zones # {}
  PROVE  FirstZone(zones) \in zones
<1>1. \E z \in zones : \A y \in zones : z <= y
  <2>1. CASE 1 \in zones
    BY <2>1 DEF Zones
  <2>2. CASE 1 \notin zones /\ 2 \in zones
    BY <2>2 DEF Zones
  <2>3. CASE 1 \notin zones /\ 2 \notin zones
    <3>1. PICK z \in zones : TRUE
      OBVIOUS
    <3>2. \A y \in zones : y = 3
      BY <2>3 DEF Zones
    <3> QED BY <3>1, <3>2
  <2> QED BY <2>1, <2>2, <2>3
<1> QED BY <1>1 DEF FirstZone

\* A plan that is large enough to be placed is that of an armed episode, for one
\* of its levels.
LEMMA PlanType ==
  ASSUME NEW e \in Episodes, NEW c \in Nat, NEW mid \in Nat, NEW room \in Nat,
         NEW confirmed \in BOOLEAN,
         Plan(e, c, mid, room, confirmed).size >= MinNotional
  PROVE  e.active /\ Plan(e, c, mid, room, confirmed).level \in Levels
<1> DEFINE plan == Plan(e, c, mid, room, confirmed)
<1>1. plan # NoPlan
  <2>1. NoPlan.size = 0
    BY DEF NoPlan
  <2>2. ~(0 >= MinNotional)
    BY ReentryAssumption
  <2> QED BY <2>1, <2>2
<1>2. e.active
  BY <1>1 DEF Plan
<1>3. CASE PullbackDue(e, mid)
  BY <1>1, <1>3 DEF Plan, Levels
<1>4. CASE ~PullbackDue(e, mid) /\ TimeoutDue(e, c)
  BY <1>1, <1>4 DEF Plan, Levels
<1>5. CASE /\ ~PullbackDue(e, mid) /\ ~TimeoutDue(e, c)
           /\ MaxMissDue(e, mid, confirmed)
  BY <1>1, <1>5 DEF Plan, Levels
<1>6. CASE /\ ~PullbackDue(e, mid) /\ ~TimeoutDue(e, c)
           /\ ~MaxMissDue(e, mid, confirmed)
  <2> DEFINE z == FirstZone(ZonesDue(e, mid))
  <2>1. ZonesDue(e, mid) # {}
    BY <1>1, <1>6 DEF Plan
  <2>2. z \in Zones
    BY <2>1, FirstZoneType DEF ZonesDue
  <2>3. ZoneName[z] \in Levels
    BY <2>2 DEF Levels
  <2>4. plan.level = ZoneName[z]
    BY <1>1, <1>6, <2>1 DEF Plan
  <2> QED BY <1>2, <2>3, <2>4
<1> QED BY <1>2, <1>3, <1>4, <1>5, <1>6

\* Charging a buy to an episode, or arming a new one, keeps the record's type.
LEMMA EpisodeTypes ==
  ASSUME NEW e \in Episodes, NEW size \in Nat
  PROVE  /\ \A level \in Levels : RecordReentryBuy(e, level, size) \in Episodes
         /\ RecordPartialReset(e, size) \in Episodes
         /\ \A c \in Nat, price \in Nat, budget \in Nat :
              Activate(e, c, price, size, budget) \in Episodes
<1>1. e.spent + size \in Nat
  BY DEF Episodes
<1>2. ASSUME NEW level \in Levels
      PROVE  RecordReentryBuy(e, level, size) \in Episodes
  BY <1>1 DEF RecordReentryBuy, Episodes
<1>3. RecordPartialReset(e, size) \in Episodes
  BY <1>1 DEF RecordPartialReset, Episodes
<1>4. ASSUME NEW c \in Nat, NEW price \in Nat, NEW budget \in Nat
      PROVE  Activate(e, c, price, size, budget) \in Episodes
  BY ReentryAssumption DEF Activate, Episodes
<1> QED BY <1>2, <1>3, <1>4

\* A budget is an amount within the quote that was free.
LEMMA BudgetType ==
  ASSUME NEW e \in Episodes, NEW room \in Nat,
         NEW boost \in 0..(BudgetBase(e, BaseTrade) \div 4)
  PROVE  /\ Budget(e, BaseTrade, boost, room) \in Nat
         /\ Budget(e, BaseTrade, boost, room) <= room
<1>1. e.size \in Nat /\ BaseTrade \in Nat
  BY CycleAssumption DEF Episodes
<1>2. BudgetBase(e, BaseTrade) \in Nat
  BY <1>1 DEF BudgetBase, Greatest
<1>3. boost \in Nat
  BY <1>2
<1>4. BudgetBase(e, BaseTrade) + boost \in Nat
  BY <1>2, <1>3
<1> QED BY <1>4 DEF Budget, Least

-----------------------------------------------------------------------------
(* Every variable keeps its type. *)

\* A tick that has computed and decided nothing is typed.
LEMMA NothingType == NoTick \in Ticks /\ NoOrder \in Orders
<1>1. NoTick \in Ticks
  BY DEF NoTick, NoPrice, Ticks, Modes, StrategyModes
<1>2. NoOrder \in Orders
  BY CycleAssumption DEF NoOrder, Orders
<1> QED BY <1>1, <1>2

\* The initial state is typed.
LEMMA TypeInit == Init => TypeOK
<1> SUFFICES ASSUME Init PROVE TypeOK
  OBVIOUS
<1> USE DEF Init
<1>1. tick \in Ticks
  BY NothingType
<1>2. order \in Orders
  BY NothingType
<1>3. ctx \in Contexts
  BY DEF BootContext, Contexts, States, TransitionKinds
<1>4. re \in Episodes
  BY DEF BlankReentry, NoPrice, NoTimeout, Episodes
<1>5. lastFill \in Fills
  BY DEF NoFill, Fills
<1> QED
  BY <1>1, <1>2, <1>3, <1>4, <1>5, CycleAssumption DEF TypeOK, Steps

\* The end of a tick is typed.
LEMMA EndTickType ==
  ASSUME TypeOK, EndTick
  PROVE  cycle' \in Nat /\ pc' = "idle" /\ tick' \in Ticks /\ order' \in Orders
<1>1. cycle + 1 \in Nat
  BY DEF TypeOK
<1> QED BY <1>1, NothingType DEF EndTick

\* What a tick decides on is typed.
LEMMA DecidedType ==
  ASSUME NEW side \in {"BUY", "SELL"}, NEW reason \in Buys \cup Sells,
         NEW size \in Nat, NEW premium \in 0..Premium, NEW loss \in BOOLEAN
  PROVE  Decided(side, reason, size, premium, loss) \in Orders
BY NothingType DEF Decided, Orders

\* A resized order is an amount.
LEMMA ResizedType ==
  ASSUME NEW size, NEW resized \in Resized(size)
  PROVE  resized \in Nat /\ resized >= MinNotional
BY ReentryAssumption DEF Resized

\* The streak that a decision starts from is a number.
LEMMA ForgottenType ==
  ASSUME TypeOK
  PROVE  ForgottenStreak \in Nat
BY DEF ForgottenStreak, TypeOK

\* The beginning of a tick keeps the types.
LEMMA TypeBegin == TypeOK /\ BeginTick => TypeOK'
<1> SUFFICES ASSUME TypeOK, BeginTick PROVE TypeOK'
  OBVIOUS
<1>1. PICK price \in Prices, r \in ReserveLevels, q \in QuoteReserves,
           strategyMode \in StrategyModes, v7 \in V7Strategies,
           breakout \in BOOLEAN, blocked \in BOOLEAN :
        /\ tick' = [price   |-> price,
                    mode    |-> TickMode(strategyMode, v7, breakout, blocked),
                    reserve |-> ReserveOf(r),
                    room    |-> RoomOf(q)]
        /\ ctx' = SyncCycle(ctx, cycle, re.active, base > ReserveOf(r))
  BY DEF BeginTick
<1>2. tick' \in Ticks
  <2>1. price \in Nat /\ r \in Nat /\ q \in Nat
    BY CycleAssumption
  <2>2. TickMode(strategyMode, v7, breakout, blocked) \in Modes
    BY DEF TickMode, Modes, StrategyModes, V7Strategies
  <2>3. ReserveOf(r) \in Nat /\ RoomOf(q) \in Nat
    BY <2>1 DEF ReserveOf, RoomOf, Least, Greatest, TypeOK
  <2> QED BY <1>1, <2>1, <2>2, <2>3 DEF Ticks
<1>3. ctx' \in Contexts
  <2>1. /\ ctx \in Contexts /\ cycle \in Nat
        /\ re.active \in BOOLEAN /\ (base > ReserveOf(r)) \in BOOLEAN
    BY DEF TypeOK, Episodes
  <2> QED BY <1>1, <2>1, SyncResult
<1> QED BY <1>2, <1>3 DEF TypeOK, BeginTick, Steps

\* A decision keeps the types.
LEMMA TypeDecide == TypeOK /\ Decide => TypeOK'
<1> SUFFICES ASSUME TypeOK, Decide PROVE TypeOK'
  OBVIOUS
<1>1. CASE DecideNothing
  BY <1>1, ForgottenType DEF DecideNothing, TypeOK, Steps
<1>2. CASE NoTradeOverride
  BY <1>2, ForgottenType, EndTickType, NothingType
  DEF NoTradeOverride, StopLoop, TypeOK, Steps
<1>3. CASE StopAtLimit
  BY <1>3, ForgottenType, NothingType DEF StopAtLimit, StopLoop, TypeOK, Steps
<1>4. CASE DecideReentry
  <2>1. PICK soft \in BOOLEAN, confirmed \in BOOLEAN :
          LET plan == Plan(re, cycle, tick.price, tick.room, confirmed)
          IN /\ plan.size >= MinNotional
             /\ \E size \in Resized(plan.size) :
                  order' = Decided("BUY", plan.level, size, 0, FALSE)
    BY <1>4 DEF DecideReentry
  <2>2. /\ re \in Episodes /\ cycle \in Nat
        /\ tick.price \in Nat /\ tick.room \in Nat
    BY DEF TypeOK, Ticks
  <2>3. Plan(re, cycle, tick.price, tick.room, confirmed).level \in Buys
    BY <2>1, <2>2, PlanType DEF Buys
  <2>4. 0 \in 0..Premium
    BY CycleAssumption
  <2>5. order' \in Orders
    BY <2>1, <2>3, <2>4, ResizedType, DecidedType
  <2> QED BY <1>4, <2>5, ForgottenType DEF DecideReentry, TypeOK, Steps
<1>5. ASSUME NEW reason \in Buys, DecideBuy(reason)
      PROVE  TypeOK'
  <2>1. 0 \in 0..Premium
    BY CycleAssumption
  <2>2. order' \in Orders
    BY <1>5, <2>1, ResizedType, DecidedType DEF DecideBuy
  <2> QED BY <1>5, <2>2, ForgottenType DEF DecideBuy, TypeOK, Steps
<1>6. ASSUME NEW reason \in Sells, DecideSell(reason)
      PROVE  TypeOK'
  <2>1. order' \in Orders
    BY <1>6, ResizedType, DecidedType DEF DecideSell
  <2> QED BY <1>6, <2>1, ForgottenType DEF DecideSell, TypeOK, Steps
<1> QED BY <1>1, <1>2, <1>3, <1>4, <1>5, <1>6 DEF Decide

\* The end of a trade is typed, whether the tick goes on or not.
LEMMA AfterTradeType ==
  ASSUME TypeOK, AfterTrade
  PROVE  /\ cycle' \in Nat /\ pc' \in {"idle", "close"}
         /\ tick' \in Ticks /\ order' \in Orders
BY EndTickType DEF AfterTrade, TypeOK

\* The size of a buy is an amount.
LEMMA BuySizeType ==
  ASSUME TypeOK
  PROVE  BuySize \in Nat
<1>1. order.size \in Nat /\ MaxTrade \in Nat
  BY CycleAssumption DEF TypeOK, Orders
<1> QED BY <1>1 DEF BuySize, Least

\* A filled buy keeps the types.
LEMMA TypeBuyFilled == TypeOK /\ BuyFilled => TypeOK'
<1> SUFFICES ASSUME TypeOK, BuyFilled PROVE TypeOK'
  OBVIOUS
<1> DEFINE size == BuySize
<1>1. size \in Nat
  BY BuySizeType
<1>2. /\ ctx \in Contexts /\ re \in Episodes /\ cycle \in Nat
      /\ base \in Nat /\ quote \in Nat
  BY DEF TypeOK
<1>3. order.reason \in Buys \cup Sells \cup {""}
  BY DEF TypeOK, Orders
<1>4. ctx' \in Contexts
  BY <1>2, <1>3, HandlerTypes DEF BuyFilled
<1>5. re' \in Episodes
  <2>1. re' = RecordBuy(order.reason, size)
    BY DEF BuyFilled
  <2> QED BY <1>1, <1>2, <2>1, EpisodeTypes DEF RecordBuy
<1>6. base' \in Nat /\ quote' \in Nat
  <2>1. base' = base + size /\ quote' = quote - size /\ quote >= size
    BY DEF BuyFilled, Affordable
  <2> HIDE DEF size
  <2> QED BY <1>1, <1>2, <2>1
<1>7. lastFill' \in Fills
  BY <1>2 DEF BuyFilled, Fills
<1> QED
  BY <1>4, <1>5, <1>6, <1>7, AfterTradeType DEF BuyFilled, TypeOK, Steps

\* A premium is an amount below a smallest order.
LEMMA PremiumType ==
  ASSUME NEW premium \in 0..Premium
  PROVE  premium \in Nat /\ premium < MinNotional
BY CycleAssumption, ReentryAssumption

\* Placing a sell keeps the types.
LEMMA TypeSellPlaced ==
  ASSUME TypeOK, NEW premium \in 0..Premium, SellPlaced(premium)
  PROVE  TypeOK'
<1>1. /\ ctx \in Contexts /\ cycle \in Nat
      /\ order \in Orders /\ order.size \in Nat /\ order.premium \in 0..Premium
      /\ order.reason \in Buys \cup Sells \cup {""}
  BY DEF TypeOK, Orders
<1>2. ctx' \in Contexts
  BY <1>1, HandlerTypes DEF SellPlaced, SellPrepared
<1>3. CutSizes \in Seq(Int) /\ CutSizes # <<>>
  <2>1. order.premium \in Nat
    BY <1>1, PremiumType
  <2>2. order.size \in Nat
    BY <1>1
  <2>3. CapSell(order.reason, order.size, order.premium) \in Nat
    BY <2>1, <2>2, CapSellBound
  <2> QED BY <2>3, ChunkSizesType DEF CutSizes
<1>4. order' \in Orders /\ order'.chunks = CutSizes
  BY <1>1, <1>3 DEF SellPlaced, Orders
<1> QED BY <1>2, <1>3, <1>4 DEF SellPlaced, SellPrepared, TypeOK, Steps

\* What a chunk sells is something, and no more than is held.
LEMMA ChunkSold ==
  ASSUME TypeOK, pc = "chunk", ChunkSendable
  PROVE  /\ ChunkSize \in Nat
         /\ ChunkSize - order.premium \in Nat \ {0}
         /\ ChunkSize - order.premium <= base
<1> DEFINE premium == order.premium
           first == Head(order.chunks)
<1>1. order.chunks \in Seq(Int) /\ order.chunks # <<>> /\ premium \in 0..Premium
  BY DEF TypeOK, Orders
<1>2. first \in Int /\ premium \in Nat /\ premium < MinNotional
  BY <1>1, CycleAssumption, ReentryAssumption
<1>3. ChunkSize \in Int /\ ChunkSize - premium <= base
  BY <1>2, CapSellBound DEF ChunkSize
<1>4. ChunkSize >= MinNotional
  BY DEF ChunkSendable
<1> HIDE DEF premium
<1>5. ChunkSize \in Nat /\ ChunkSize - premium \in Nat \ {0}
  BY <1>2, <1>3, <1>4, ReentryAssumption
<1> QED BY <1>3, <1>5 DEF premium

\* Chunks are left after the first of several.
LEMMA TailType ==
  ASSUME NEW s \in Seq(Int), Len(s) > 1
  PROVE  Tail(s) \in Seq(Int) /\ Tail(s) # <<>>
<1>1. Tail(s) \in Seq(Int) /\ Len(Tail(s)) = Len(s) - 1
  OBVIOUS
<1> QED BY <1>1

\* What follows a chunk is typed.
LEMMA AfterChunkType ==
  ASSUME TypeOK, pc = "chunk", AfterChunk
  PROVE  /\ cycle' \in Nat /\ pc' \in {"idle", "close", "chunk"}
         /\ tick' \in Ticks /\ order' \in Orders
         /\ pc' = "chunk" => order'.chunks # <<>>
<1>1. order \in Orders /\ order.chunks \in Seq(Int)
  BY DEF TypeOK, Orders
<1>2. CASE /\ Len(order.chunks) > 1
           /\ order' = [order EXCEPT !.chunks = Tail(@)]
           /\ UNCHANGED <<cycle, pc, tick>>
  <2>1. Tail(order.chunks) \in Seq(Int) /\ Tail(order.chunks) # <<>>
    BY <1>1, <1>2, TailType
  <2>2. order' \in Orders /\ order'.chunks = Tail(order.chunks)
    BY <1>1, <1>2, <2>1 DEF Orders
  <2> QED BY <1>2, <2>1, <2>2 DEF TypeOK
<1>3. CASE Len(order.chunks) = 1 /\ pc' = "close"
           /\ UNCHANGED <<cycle, tick, order>>
  BY <1>3 DEF TypeOK
<1>4. CASE EndTick
  BY <1>4, EndTickType
<1> QED BY <1>2, <1>3, <1>4 DEF AfterChunk

\* The episode after a chunk is typed.
LEMMA ChunkEpisode ==
  ASSUME TypeOK, ChunkFilled
  PROVE  re' \in Episodes
<1>1. /\ re \in Episodes /\ cycle \in Nat
      /\ tick.price \in Nat /\ tick.room \in Nat
  BY DEF TypeOK, Ticks
<1>2. CASE UNCHANGED re
  BY <1>1, <1>2
<1>3. CASE \E boost \in 0..(BudgetBase(re, BaseTrade) \div 4) :
             re' = Activate(re, cycle, tick.price, ChunkSize,
                            Budget(re, BaseTrade, boost, tick.room))
  <2>1. PICK boost \in 0..(BudgetBase(re, BaseTrade) \div 4) :
          re' = Activate(re, cycle, tick.price, ChunkSize,
                         Budget(re, BaseTrade, boost, tick.room))
    BY <1>3
  <2>2. Budget(re, BaseTrade, boost, tick.room) \in Nat
    BY <1>1, BudgetType
  <2>3. ChunkSize \in Nat
    BY ChunkSold DEF ChunkFilled
  <2> QED BY <1>1, <2>1, <2>2, <2>3, EpisodeTypes
<1> QED BY <1>2, <1>3 DEF ChunkFilled

\* A filled chunk keeps the types.
LEMMA TypeChunkFilled == TypeOK /\ ChunkFilled => TypeOK'
<1> SUFFICES ASSUME TypeOK, ChunkFilled PROVE TypeOK'
  OBVIOUS
<1>0. base \in Nat /\ quote \in Nat /\ cycle \in Nat /\ lossStreak \in Nat
  BY DEF TypeOK
<1>1. ctx \in Contexts /\ order.reason \in Buys \cup Sells \cup {""}
  BY DEF TypeOK, Orders
<1>2. base' \in Nat /\ quote' \in Nat
  <2> DEFINE sold == ChunkSize - order.premium
  <2>1. ChunkSize \in Nat /\ sold \in Nat /\ sold <= base
    BY ChunkSold DEF ChunkFilled
  <2>2. base' = base - sold /\ quote' = quote + ChunkSize
    BY DEF ChunkFilled
  <2> HIDE DEF sold
  <2> QED BY <1>0, <2>1, <2>2
<1>3. re' \in Episodes
  BY ChunkEpisode
<1>4. lossStreak' \in Nat
  <2>1. lossStreak' \in {lossStreak, lossStreak + 1, 0}
    BY DEF ChunkFilled, StreakAfter
  <2> QED BY <1>0, <2>1
<1>5. lastFill' \in Fills
  BY <1>0 DEF ChunkFilled, Fills
<1>6. ctx' \in Contexts
  <2> DEFINE sold == HandleSellFill(ctx, cycle, order.reason, re'.active,
                                    base' > tick.reserve)
  <2>1. re'.active \in BOOLEAN /\ (base' > tick.reserve) \in BOOLEAN
    BY <1>3 DEF Episodes
  <2>2. sold \in Contexts
    BY <1>0, <1>1, <2>1, SellHandlerTypes
  <2>3. ctx' = MaybeEnterCooldown(sold, cycle, lossStreak')
    BY DEF ChunkFilled
  <2> QED BY <1>0, <1>4, <2>2, <2>3, CooldownEntryType
<1> QED
  BY <1>2, <1>3, <1>4, <1>5, <1>6, AfterChunkType DEF ChunkFilled, TypeOK, Steps

\* The execution of a trade keeps the types.
LEMMA TypeExecute == TypeOK /\ Execute => TypeOK'
<1> SUFFICES ASSUME TypeOK, Execute PROVE TypeOK'
  OBVIOUS
<1>1. CASE BuyDropped
  BY <1>1 DEF BuyDropped, TypeOK, Steps
<1>2. CASE BuyFilled
  BY <1>2, TypeBuyFilled
<1>3. CASE SellDropped
  BY <1>3 DEF SellDropped, TypeOK, Steps
<1>4. ASSUME NEW premium \in 0..Premium, SellRefused(premium)
      PROVE  TypeOK'
  <2>1. /\ ctx \in Contexts /\ cycle \in Nat
        /\ order.reason \in Buys \cup Sells \cup {""}
    BY DEF TypeOK, Orders
  <2>2. ctx' \in Contexts
    BY <1>4, <2>1, HandlerTypes DEF SellRefused, SellPrepared
  <2> QED BY <1>4, <2>2 DEF SellRefused, SellPrepared, TypeOK, Steps
<1>5. ASSUME NEW premium \in 0..Premium, SellPlaced(premium)
      PROVE  TypeOK'
  BY <1>5, TypeSellPlaced
<1>6. CASE ChunkDropped
  BY <1>6 DEF ChunkDropped, TypeOK, Steps
<1>7. CASE ChunkFilled
  BY <1>7, TypeChunkFilled
<1> QED
  BY <1>1, <1>2, <1>3, <1>4, <1>5, <1>6, <1>7 DEF Execute

\* Closing a tick keeps the types.
LEMMA TypeClose == TypeOK /\ CloseTick => TypeOK'
<1> SUFFICES ASSUME TypeOK, CloseTick PROVE TypeOK'
  OBVIOUS
<1>1. ctx' \in Contexts
  <2>1. /\ ctx \in Contexts /\ cycle \in Nat
        /\ re.active \in BOOLEAN /\ (base > tick.reserve) \in BOOLEAN
    BY DEF TypeOK, Episodes
  <2>2. ctx' = SyncCycle(ctx, cycle, re.active, base > tick.reserve)
    BY DEF CloseTick
  <2> QED BY <2>1, <2>2, SyncResult
<1>2. CASE EndTick
  BY <1>1, <1>2, EndTickType DEF CloseTick, TypeOK, Steps
<1>3. CASE StopLoop
  BY <1>1, <1>3, NothingType DEF CloseTick, StopLoop, TypeOK, Steps
<1> QED BY <1>2, <1>3 DEF CloseTick

\* Every step keeps the types.
LEMMA TypeStep == TypeOK /\ [Next]_vars => TypeOK'
<1> SUFFICES ASSUME TypeOK, [Next]_vars PROVE TypeOK'
  OBVIOUS
<1>1. CASE InvalidPrice
  BY <1>1, EndTickType DEF InvalidPrice, TypeOK, Steps
<1>2. CASE UNCHANGED vars \/ LoopOver
  BY <1>2 DEF vars, LoopOver, TypeOK
<1> QED
  BY <1>1, <1>2, TypeBegin, TypeDecide, TypeExecute, TypeClose DEF Next

\* Type correctness: holdings, budgets and what is spent of them are never
\* negative, and a tick that fills chunks has one left to fill.
THEOREM TypeCorrect == Spec => []TypeOK
BY TypeInit, TypeStep, PTL DEF Spec

-----------------------------------------------------------------------------
(* The gates: what a tick may decide on. *)

\* A step that leads to a decision, or from it to an order, is the beginning of
\* a tick or a decision; a decision leaves the context, the episode, the base,
\* the clock and the snapshot alone.
LEMMA DecisionSteps ==
  ASSUME Next, pc' \in {"decide", "order"}
  PROVE  \/ BeginTick /\ pc' = "decide"
         \/ /\ pc = "decide" /\ pc' = "order"
            /\ UNCHANGED <<cycle, tick, ctx, re, base, quote>>
            /\ \/ DecideReentry
               \/ \E reason \in Buys \ Levels : DecideBuy(reason)
               \/ \E reason \in Sells : DecideSell(reason)
<1>1. ~EndTick
  BY DEF EndTick
<1>2. ~InvalidPrice /\ ~CloseTick /\ ~LoopOver
  BY <1>1 DEF InvalidPrice, CloseTick, StopLoop, LoopOver, vars
<1>3. ~Execute
  BY <1>1 DEF Execute, BuyDropped, BuyFilled, AfterTrade, SellDropped,
    SellRefused, SellPlaced, ChunkDropped, ChunkFilled, AfterChunk
<1>4. CASE BeginTick
  BY <1>4 DEF BeginTick
<1>5. CASE Decide
  <2>1. ~DecideNothing /\ ~NoTradeOverride /\ ~StopAtLimit
    BY <1>1 DEF DecideNothing, NoTradeOverride, StopAtLimit, StopLoop, EndTick
  <2> QED BY <1>5, <2>1 DEF Decide, DecideReentry, DecideBuy, DecideSell
<1> QED BY <1>2, <1>3, <1>4, <1>5 DEF Next

\* The beginning of a tick synchronises the state machine with the book, and
\* keeps a COOLDOWN only within its limits.
LEMMA BeginSyncs ==
  ASSUME TypeOK, BeginTick
  PROVE  /\ \/ ctx'.state = "COOLDOWN"
            \/ ctx'.state = Resting(re.active, base > tick'.reserve)
         /\ ctx'.state = "COOLDOWN" =>
              ctx' = ctx /\ CooldownExit(ctx, cycle) = ""
         /\ UNCHANGED <<cycle, re, base, quote>>
<1>1. PICK r \in ReserveLevels :
        /\ tick'.reserve = ReserveOf(r)
        /\ ctx' = SyncCycle(ctx, cycle, re.active, base > ReserveOf(r))
  BY DEF BeginTick
<1>2. /\ ctx \in Contexts /\ cycle \in Nat
      /\ re.active \in BOOLEAN /\ (base > ReserveOf(r)) \in BOOLEAN
  BY DEF TypeOK, Episodes
<1>3. UNCHANGED <<cycle, re, base, quote>>
  BY DEF BeginTick
<1> DEFINE has == base > ReserveOf(r)
           y == SyncCycle(ctx, cycle, re.active, has)
<1>4. /\ y.state = "COOLDOWN" => y = ctx /\ CooldownExit(ctx, cycle) = ""
      /\ y.state = "COOLDOWN" \/ y.state = Resting(re.active, has)
  BY <1>2, SyncResult
<1> QED BY <1>1, <1>3, <1>4

\* The initial state decides nothing.
LEMMA SyncedInit == Init => SyncedState
BY DEF Init, SyncedState

\* Every step that leads to a decision leaves the machine synchronised.
LEMMA SyncedStep == TypeOK /\ SyncedState /\ [Next]_vars => SyncedState'
<1> SUFFICES ASSUME TypeOK, SyncedState, Next, pc' \in {"decide", "order"}
             PROVE  SyncedState'
  BY DEF SyncedState, vars, InCooldown
<1>1. CASE BeginTick
  BY <1>1, BeginSyncs DEF SyncedState, InCooldown
<1>2. CASE pc = "decide" /\ UNCHANGED <<cycle, tick, ctx, re, base, quote>>
  BY <1>2 DEF SyncedState, InCooldown
<1> QED BY <1>1, <1>2, DecisionSteps

\* SyncedState: when a tick decides, the machine is in COOLDOWN or in the state
\* that the book calls for, whatever exceptions the last ticks ended with.
THEOREM Synced == Spec => []SyncedState
BY TypeCorrect, SyncedInit, SyncedStep, PTL DEF Spec

\* A candidate buy is neither decided on while an episode is armed nor in
\* COOLDOWN.
LEMMA GatedBuy ==
  ASSUME NEW reason \in Buys \ Levels, NEW soft \in BOOLEAN,
         MayBuy(reason, soft)
  PROVE  ~re.active /\ ~InCooldown(ctx)
<1>1. reason \in StrategyBuys \cup InventoryBuys \cup {"force_trade_buy"}
  BY DEF Buys
<1>2. AllowBuy(ctx) \/ ctx.state = "ACCUMULATING"
  BY <1>1 DEF MayBuy
<1> QED BY <1>2 DEF MayBuy, AllowBuy, InCooldown

\* Neither is a sell, once the machine is synchronised.
LEMMA GatedSell ==
  ASSUME TypeOK, SyncedState, pc = "decide",
         NEW reason \in Sells, NEW soft \in BOOLEAN, MaySell(reason, soft)
  PROVE  ~re.active /\ ~InCooldown(ctx)
<1>1. ctx.state \in {"IDLE", "ACCUMULATING", "DISTRIBUTING"}
  BY DEF MaySell, AllowSell
<1>2. ~InCooldown(ctx)
  BY <1>1 DEF InCooldown
<1>3. ctx.state = Resting(re.active, base > tick.reserve)
  BY <1>2 DEF SyncedState
<1> QED BY <1>1, <1>2, <1>3 DEF Resting

\* The initial state decides nothing.
LEMMA OnlyReentryInit == Init => OnlyReentryTrades
BY DEF Init, OnlyReentryTrades

\* Every decision keeps to the episode while one is armed.
LEMMA OnlyReentryStep ==
  TypeOK /\ SyncedState /\ OnlyReentryTrades /\ [Next]_vars
    => OnlyReentryTrades'
<1> SUFFICES ASSUME TypeOK, SyncedState, Next, pc' = "order"
             PROVE  OnlyReentryTrades'
  BY DEF OnlyReentryTrades, vars, InCooldown
<1>1. pc = "decide" /\ UNCHANGED <<ctx, re>>
  BY DecisionSteps DEF BeginTick
<1>2. CASE DecideReentry
  <2>1. PICK soft \in BOOLEAN, confirmed \in BOOLEAN :
          LET plan == Plan(re, cycle, tick.price, tick.room, confirmed)
          IN /\ plan.size >= MinNotional
             /\ \E size \in Resized(plan.size) :
                  order' = Decided("BUY", plan.level, size, 0, FALSE)
    BY <1>2 DEF DecideReentry
  <2>2. /\ re \in Episodes /\ cycle \in Nat
        /\ tick.price \in Nat /\ tick.room \in Nat
    BY DEF TypeOK, Ticks
  <2>3. /\ re.active
        /\ Plan(re, cycle, tick.price, tick.room, confirmed).level \in Levels
    BY <2>1, <2>2, PlanType
  <2>4. order'.reason = Plan(re, cycle, tick.price, tick.room, confirmed).level
    BY <2>1 DEF Decided, NoOrder
  <2> QED BY <1>1, <2>3, <2>4 DEF OnlyReentryTrades
<1>3. ASSUME NEW reason \in Buys \ Levels, DecideBuy(reason)
      PROVE  OnlyReentryTrades'
  BY <1>1, <1>3, GatedBuy DEF DecideBuy, OnlyReentryTrades, InCooldown
<1>4. ASSUME NEW reason \in Sells, DecideSell(reason)
      PROVE  OnlyReentryTrades'
  BY <1>1, <1>4, GatedSell DEF DecideSell, OnlyReentryTrades, InCooldown
<1> QED BY <1>1, <1>2, <1>3, <1>4, DecisionSteps DEF BeginTick

\* OnlyReentryTrades: while an episode is armed or a cooldown runs, the only
\* trade that is decided on is a buy of the armed episode.
THEOREM OnlyReentry == Spec => []OnlyReentryTrades
BY TypeCorrect, Synced, OnlyReentryInit, OnlyReentryStep, PTL DEF Spec

\* The initial state decides nothing.
LEMMA BoundedInit == Init => CooldownBounded
BY DEF Init, CooldownBounded

\* A decision is in a COOLDOWN that the tick's beginning has kept.
LEMMA BoundedStep == TypeOK /\ CooldownBounded /\ [Next]_vars => CooldownBounded'
<1> SUFFICES ASSUME TypeOK, CooldownBounded, Next, pc' \in {"decide", "order"}
             PROVE  CooldownBounded'
  BY DEF CooldownBounded, vars, InCooldown
<1>1. CASE BeginTick
  <2>1. ctx \in Contexts /\ cycle \in Nat
    BY DEF TypeOK
  <2>2. InCooldown(ctx)' =>
          \A limit \in {CooldownCycles, MaxCooldownCycles} \ {0} :
            cycle - ctx.entered < limit
    BY <1>1, <2>1, BeginSyncs, KeptCooldown DEF InCooldown
  <2>3. InCooldown(ctx)' => ctx' = ctx /\ cycle' = cycle
    BY <1>1, BeginSyncs DEF InCooldown
  <2> QED BY <2>2, <2>3 DEF CooldownBounded
<1>2. CASE pc = "decide" /\ UNCHANGED <<cycle, tick, ctx, re, base, quote>>
  BY <1>2 DEF CooldownBounded, InCooldown
<1> QED BY <1>1, <1>2, DecisionSteps

\* CooldownBounded: a tick that decides in COOLDOWN is within the configured
\* cooldown and within the maximum.
THEOREM CooldownBound == Spec => []CooldownBounded
BY TypeCorrect, BoundedInit, BoundedStep, PTL DEF Spec

-----------------------------------------------------------------------------
(* The budget of an episode is in the portfolio. *)

\* The two halves of BudgetFunded: the rest of the budget, and the snapshot.
RestFunded == re.active => Remaining(re) <= quote
RoomFunded == pc \in {"decide", "order", "chunk"} => tick.room <= quote

\* There is no episode at the start, and no snapshot.
LEMMA FundedInit == Init => BudgetFunded
BY DEF Init, BudgetFunded, BlankReentry

\* The room of a tick's snapshot is covered when the tick begins.
LEMMA FundedBegin == TypeOK /\ BudgetFunded /\ BeginTick => BudgetFunded'
<1> SUFFICES ASSUME TypeOK, BudgetFunded, BeginTick PROVE BudgetFunded'
  OBVIOUS
<1>1. PICK q \in QuoteReserves : tick'.room = RoomOf(q)
  BY DEF BeginTick
<1>2. q \in Nat /\ quote \in Nat
  BY CycleAssumption DEF TypeOK
<1>3. RoomOf(q) <= quote
  BY <1>2 DEF RoomOf, Greatest
<1> QED BY <1>1, <1>3 DEF BeginTick, BudgetFunded

\* Spending from a budget that is covered leaves the rest covered.
LEMMA SpendFunded ==
  ASSUME NEW budget \in Nat, NEW spent \in Nat, NEW size \in Nat,
         NEW q \in Nat, q >= size, Greatest(budget - spent, 0) <= q
  PROVE  Greatest(budget - (spent + size), 0) <= q - size
BY DEF Greatest

\* A filled buy takes as much from the rest of the budget as from the quote.
LEMMA FundedBuy ==
  TypeOK /\ OnlyReentryTrades /\ BudgetFunded /\ BuyFilled => BudgetFunded'
<1> SUFFICES ASSUME TypeOK, OnlyReentryTrades, BudgetFunded, BuyFilled
             PROVE  BudgetFunded'
  OBVIOUS
<1>1. pc' \notin {"decide", "order", "chunk"}
  BY DEF BuyFilled, AfterTrade, EndTick
<1>2. SUFFICES ASSUME re'.active PROVE Remaining(re)' <= quote'
  BY <1>1 DEF BudgetFunded
<1>3. re' = RecordBuy(order.reason, BuySize) /\ pc = "order"
  BY DEF BuyFilled, BuyPlaced
<1>4. re.active
  BY <1>2, <1>3 DEF RecordBuy, RecordReentryBuy, RecordPartialReset, TypeOK,
    Episodes
<1>5. order.reason \in Levels
  BY <1>3, <1>4 DEF OnlyReentryTrades
<1>6. re'.budget = re.budget /\ re'.spent = re.spent + BuySize
  BY <1>3, <1>5 DEF RecordBuy, RecordReentryBuy, TypeOK, Episodes
<1>7. /\ re.budget \in Nat /\ re.spent \in Nat /\ quote \in Nat
      /\ BuySize \in Nat
  BY BuySizeType DEF TypeOK, Episodes
<1>8. /\ Greatest(re.budget - re.spent, 0) <= quote
      /\ quote >= BuySize /\ quote' = quote - BuySize
  BY <1>4 DEF BudgetFunded, Remaining, BuyFilled, Affordable
<1>9. Greatest(re.budget - (re.spent + BuySize), 0) <= quote - BuySize
  BY <1>7, <1>8, SpendFunded
<1> QED BY <1>6, <1>8, <1>9 DEF Remaining

\* A chunk that arms an episode budgets the snapshot, which the quote the chunk
\* brings has left covered.
LEMMA FundedChunk == TypeOK /\ BudgetFunded /\ ChunkFilled => BudgetFunded'
<1> SUFFICES ASSUME TypeOK, BudgetFunded, ChunkFilled PROVE BudgetFunded'
  OBVIOUS
<1>1. re \in Episodes /\ tick.room \in Nat /\ quote \in Nat
  BY DEF TypeOK, Ticks
<1>2. quote' \in Nat /\ quote' >= quote
  <2>1. ChunkSize \in Nat
    BY ChunkSold DEF ChunkFilled
  <2>2. quote' = quote + ChunkSize
    BY DEF ChunkFilled
  <2> QED BY <1>1, <2>1, <2>2
<1>3. tick.room <= quote
  BY DEF BudgetFunded, ChunkFilled
<1>4. RoomFunded'
  BY <1>1, <1>2, <1>3
  DEF RoomFunded, ChunkFilled, AfterChunk, EndTick
<1>5. RestFunded'
  <2>1. CASE UNCHANGED re
    <3>1. re.active => Remaining(re) <= quote
      BY DEF BudgetFunded
    <3>2. Remaining(re) \in Nat
      BY <1>1, RemainingType
    <3>3. re.active => Remaining(re) <= quote'
      BY <1>1, <1>2, <3>1, <3>2
    <3> QED BY <2>1, <3>3 DEF RestFunded, Remaining
  <2>2. CASE \E boost \in 0..(BudgetBase(re, BaseTrade) \div 4) :
               re' = Activate(re, cycle, tick.price, ChunkSize,
                              Budget(re, BaseTrade, boost, tick.room))
    <3>1. PICK boost \in 0..(BudgetBase(re, BaseTrade) \div 4) :
            re' = Activate(re, cycle, tick.price, ChunkSize,
                           Budget(re, BaseTrade, boost, tick.room))
      BY <2>2
    <3> DEFINE budget == Budget(re, BaseTrade, boost, tick.room)
    <3>2. budget \in Nat /\ budget <= tick.room
      BY <1>1, BudgetType
    <3>3. re'.budget = budget /\ re'.spent = 0
      BY <3>1 DEF Activate
    <3> HIDE DEF budget
    <3>4. Greatest(budget - 0, 0) <= quote'
      BY <1>1, <1>2, <1>3, <3>2 DEF Greatest
    <3> QED BY <3>3, <3>4 DEF RestFunded, Remaining
  <2> QED BY <2>1, <2>2 DEF ChunkFilled
<1> QED BY <1>4, <1>5 DEF RestFunded, RoomFunded, BudgetFunded

\* The other steps leave the episode and the quote alone, and the snapshot too
\* unless they end the tick.
LEMMA FundedStep ==
  TypeOK /\ OnlyReentryTrades /\ BudgetFunded /\ [Next]_vars => BudgetFunded'
<1> SUFFICES ASSUME TypeOK, OnlyReentryTrades, BudgetFunded, [Next]_vars
             PROVE  BudgetFunded'
  OBVIOUS
<1>1. ASSUME UNCHANGED <<re, quote>>,
             \/ pc' \notin {"decide", "order", "chunk"}
             \/ UNCHANGED tick /\ pc \in {"decide", "order", "chunk"}
      PROVE  BudgetFunded'
  BY <1>1 DEF BudgetFunded, Remaining
<1>2. CASE InvalidPrice \/ CloseTick
  BY <1>1, <1>2 DEF InvalidPrice, CloseTick, EndTick, StopLoop
<1>3. CASE BeginTick
  BY <1>3, FundedBegin
<1>4. CASE Decide
  BY <1>1, <1>4 DEF Decide, DecideNothing, NoTradeOverride, StopAtLimit, StopLoop,
    DecideReentry, DecideBuy, DecideSell, EndTick
<1>5. CASE BuyFilled
  BY <1>5, FundedBuy
<1>6. CASE ChunkFilled
  BY <1>6, FundedChunk
<1>7. CASE Execute /\ ~BuyFilled /\ ~ChunkFilled
  BY <1>1, <1>7 DEF Execute, BuyDropped, SellDropped, SellRefused, SellPlaced,
    SellPrepared, ChunkDropped
<1>8. CASE UNCHANGED vars \/ LoopOver
  BY <1>8 DEF vars, LoopOver, BudgetFunded, Remaining
<1> QED BY <1>2, <1>3, <1>4, <1>5, <1>6, <1>7, <1>8 DEF Next

\* BudgetFunded: the rest of an armed budget is always in the portfolio.
THEOREM Funded == Spec => []BudgetFunded
BY TypeCorrect, OnlyReentry, FundedInit, FundedStep, PTL DEF Spec
=============================================================================
