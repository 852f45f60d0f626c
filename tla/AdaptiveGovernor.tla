--------------------------- MODULE AdaptiveGovernor ---------------------------
(***************************************************************************)
(* The two feedback loops around a tick.  The adaptive market maker        *)
(* (adaptive_market_maker.py) watches how the price moved after the fills  *)
(* of the last cycles, and how often it has been on the defensive, and     *)
(* answers with a stage of defence.  The risk manager (risk_manager.py)    *)
(* counts the trades that lost, and answers with a mode in which nothing   *)
(* is placed.                                                              *)
(*                                                                         *)
(* Fills and history are kept by their age: the number of cycles since.    *)
(* Which trade a tick tries, and how the price moves, is free.             *)
(***************************************************************************)
EXTENDS AdaptivePlan, FiniteSets

CONSTANTS
  Markets,        \* the markets a tick may see, see AdaptivePlan
  CalmMarkets,    \* those without a reason for any defence
  Window,         \* ADAPTIVE_PERF_WINDOW_MINUTES in cycles
  ClusterWindow,  \* the 15 minutes of a cluster in cycles
  ProbeAge,       \* the 30 seconds after which a fill is judged, in cycles
  History,        \* the cycles that stage4_toxic_cycles looks back
  MaxLosses,      \* max_consecutive_losses
  CoolCycles,     \* cooldown_cycles_after_loss
  MaxChunks       \* bound on the fills of a cycle

ASSUME GovernorAssumption ==
  /\ Markets \subseteq Snapshot /\ CalmMarkets \subseteq Markets
  /\ {Window, ClusterWindow, ProbeAge, History, MaxLosses, MaxChunks} \subseteq Nat \ {0}
  /\ ClusterWindow <= Window /\ CoolCycles \in Nat

VARIABLES
  pc,       \* "observe" or "trade"
  logging,  \* ADAPTIVE_LOGGING_ENABLED
  fills,    \* the fills of the window, by their age
  hist,     \* adaptive_cycle_history, by the age of its entries
  risk,     \* RiskState
  plan      \* the plan of the tick

vars == <<pc, logging, fills, hist, risk, plan>>

-----------------------------------------------------------------------------
(* How good the fills were. *)

\* How the price moved after a fill: well, well but short of the edge that was
\* expected ("slim"), against it, or against it and far.  "turned" has gone far
\* against it, but not yet after five seconds: a cycle of 30 seconds or more takes
\* all three moves from one price.
\* Until then the fill is an open probe.
Verdicts == {"good", "slim", "poor", "toxic"} \cup IF ProbeAge > 1 THEN {"turned"} ELSE {}

\* toxic, and a move against the fill after five seconds.
Toxic   == {"toxic", "turned"}
Adverse == {"poor", "toxic"}

\* What is missing of the expected edge, in basis points.
SomeGap == 20
LargeGap == 40

NoFills  == [kind |-> "none", count |-> 0]

\* The fills of the last cycles with a verdict.
CountOf(window, verdicts, cycles) ==
  Cardinality({fill \in (1..cycles) \X (1..MaxChunks) :
                 /\ window[fill[1]].kind \in verdicts
                 /\ fill[2] <= window[fill[1]].count})

\* current_fill_quality_snapshot()
Quality(window) ==
  LET of(verdicts) == CountOf(window, verdicts, Window)
      count == of(Verdicts)
  IN  IF count = 0
      THEN [count |-> 0, adverse |-> 0, toxic |-> 0, gap |-> 0, cluster |-> 0]
      ELSE [count   |-> count,
            adverse |-> (100 * of(Adverse)) \div count,
            toxic   |-> (100 * of(Toxic)) \div count,
            gap     |-> (SomeGap * of({"slim", "poor"}) + LargeGap * of(Toxic)) \div count,
            cluster |-> CountOf(window, Toxic, ClusterWindow)]

\* update_fill_quality_probes(): the open probes that are old enough are judged.
Due(age) == age >= ProbeAge /\ fills[age].kind = "open"
Judged(verdict) ==
  [age \in 1..Window |->
     IF Due(age) THEN [fills[age] EXCEPT !.kind = verdict[age]] ELSE fills[age]]

\* Mutant of Aged: what has left the window is still counted.
AgedNever(window, new) ==
  [age \in 1..Window |-> IF age = 1 THEN new
                         ELSE IF age = Window /\ window[age - 1] = NoFills
                         THEN window[age] ELSE window[age - 1]]

\* A cycle later.
Aged(window, new) ==
  [age \in 1..Window |-> IF age = 1 THEN new ELSE window[age - 1]]

-----------------------------------------------------------------------------
(* The history of the cycles. *)

\* _recent_toxic_cycle_count()
BadCycles == Cardinality({age \in 1..History : hist[age] = "bad"})

\* Mutant of IsBad: only the stages above the second count.
IsBadLate(quality, stage) == quality.toxic >= 55 \/ stage >= 3

IsBad(quality, stage) == quality.toxic >= 55 \/ stage >= 2

\* _record_adaptive_cycle_history(), unless the tick raises before.
Entry(recorded) ==
  IF recorded /\ logging THEN IF plan.bad THEN "bad" ELSE "calm" ELSE "none"

Remembered(entry) ==
  [age \in 1..History |-> IF age = 1 THEN entry ELSE hist[age - 1]]

-----------------------------------------------------------------------------
(* The risk manager. *)

Locked == risk.losses >= MaxLosses

\* assess(): the lock, the pause after a loss, or a measure of the account.  The
\* drawdown it looks at is never written, so that the drawdown lock cannot occur.
Refused(measure) == measure \/ Locked \/ risk.cooling > 0

\* on_trade_closed(), after every fill of the cycle: buys have no profit.  The
\* chunks of a sell have one price and one cost basis, but for slippage and fees,
\* and so one sign.
AfterFills(count, loss) ==
  IF loss THEN [losses |-> risk.losses + count, cooling |-> CoolCycles]
  ELSE [losses |-> 0, cooling |-> 0]

\* Mutant of AfterNoFill: the pause goes on below zero.
AfterNoFillBelow == [risk EXCEPT !.cooling = @ - 1]

AfterNoFill == [risk EXCEPT !.cooling = Pos(@ - 1)]

\* The mode of the tick: the V7 strategy replaces the one of the plan, unless it
\* is a breakout strategy outside of a breakout.
V7Modes == {"TREND_UP", "TREND_DOWN", "RANGE", "NO_TRADE", "plan"}
TickMode(v7, mode, refused) ==
  IF refused THEN "NO_TRADE" ELSE IF v7 = "plan" THEN mode ELSE v7

-----------------------------------------------------------------------------
NoPlan == [stage |-> 0, mode |-> "RANGE_MAKER", quotes |-> TRUE, sides |-> {}, sized |-> TRUE,
           tick |-> "NO_TRADE", bad |-> FALSE, calm |-> FALSE]

Init ==
  /\ pc = "observe" /\ logging \in BOOLEAN
  /\ fills = [age \in 1..Window |-> NoFills]
  /\ hist = [age \in 1..History |-> "none"]
  /\ risk = [losses |-> 0, cooling |-> 0]
  /\ plan = NoPlan

\* The cycle is over: everything is a cycle older.
EndCycle(recorded, new) ==
  /\ pc' = "observe"
  /\ fills' = Aged(fills, new)
  /\ hist' = Remembered(Entry(recorded))
  /\ UNCHANGED logging

\* What is looked at, by the properties only, of a plan that is over.
PlanOver == plan' = [NoPlan EXCEPT !.stage = plan.stage, !.calm = plan.calm]

\* A tick without a price, or one that raises before its plan.
NoPlanTick ==
  /\ pc = "observe"
  /\ EndCycle(FALSE, NoFills)
  /\ risk' = AfterNoFill
  /\ plan' = NoPlan

\* The modes that the tick may get with the plan's.
TickModes(mode) ==
  {TickMode(v7, mode, Refused(measure)) : v7 \in V7Modes, measure \in BOOLEAN}

\* The plan that is kept of the answer of the market maker.
Kept(answer, quality, calm, tick) ==
  [stage  |-> answer.stage,  mode  |-> answer.mode,
   quotes |-> answer.quotes, sides |-> answer.sides, sized |-> answer.sized,
   tick   |-> tick,
   bad    |-> IsBad(quality, answer.stage),
   calm   |-> calm]

\* The plan of a market.  losing is what the history says of realised losses.
MakePlan(m, losing, calm) ==
  \E quality \in {Quality(fills')} :
  \E score   \in {Scores(m, quality)} :
  \E regime  \in {Regime(m, score)} :
  \E edge    \in {Edge(m, quality, regime)} :
  \E answer  \in {Plan(m, quality, regime, edge, BadCycles, losing)} :
  \E tick    \in TickModes(answer.mode) :
    plan' = Kept(answer, quality, calm, tick)

\* The probes, the risk manager's answer, the plan and the mode of the tick.
Observe(m) ==
  /\ pc = "observe" /\ pc' = "trade"
  /\ UNCHANGED <<logging, hist, risk>>
  /\ \E verdict \in [{age \in 1..Window : Due(age)} -> Verdicts], losing \in BOOLEAN :
       /\ losing => \E age \in 1..History : hist[age] # "none"
       /\ fills' = Judged(verdict)
       /\ MakePlan(m, losing,
                   /\ m \in CalmMarkets /\ ~losing
                   /\ \A age \in DOMAIN verdict : verdict[age] = "good")

\* can_place_buy() and can_place_sell().
BuyModes == {"TREND_UP", "RANGE_MAKER"}

\* Mutant of SellModes: the exits that NO_TRADE lets through are placed.
SellModesOpen == {"TREND_UP", "RANGE_MAKER", "OVERWEIGHT_EXIT", "NO_TRADE"}

SellModes == {"TREND_UP", "RANGE_MAKER", "OVERWEIGHT_EXIT"}

\* The strategy's own quotes need a side of the plan and a size; a sell into a
\* rally of the market needs the size only.
QuoteBuy  == plan.sized /\ "buy" \in plan.sides
QuoteSell == plan.sized

\* The trade that keeps a quiet bot active.
FloorTrade == plan.quotes /\ plan.mode # "NO_TRADE" /\ plan.stage < 4

\* Where a trade comes from.  The others are the reentry engine, the inventory,
\* profit exits and forced trades: the plan does not concern them.
Sources == {"quote", "floor", "other"}

Fill(side, source) ==
  /\ pc = "trade"
  /\ plan.tick \in IF side = "buy" THEN BuyModes ELSE SellModes
  /\ source = "quote" => IF side = "buy" THEN QuoteBuy ELSE QuoteSell
  /\ source = "floor" => FloorTrade
  /\ \E count \in 1..MaxChunks, loss, recorded \in BOOLEAN :
       /\ side = "buy" => count = 1 /\ ~loss
       /\ EndCycle(recorded, [kind |-> "open", count |-> count])
       /\ risk' = AfterFills(count, loss)
  /\ PlanOver

\* Nothing is traded.
NoFill ==
  /\ pc = "trade"
  /\ \E recorded \in BOOLEAN : EndCycle(recorded, NoFills)
  /\ risk' = AfterNoFill
  /\ PlanOver

Next ==
  \/ NoPlanTick
  \/ \E m \in Markets : Observe(m)
  \/ \E side \in {"buy", "sell"}, source \in Sources : Fill(side, source)
  \/ NoFill

\* The loop is one task and goes on whatever a tick returns or raises.  A step of
\* Next can always be taken (deadlock is checked) and changes something, so that this
\* is WF_vars(Next), in a form that TLC checks without trying Next anew.
GoesOn == []<><<TRUE>>_vars

Spec == Init /\ [][Next]_vars /\ GoesOn

-----------------------------------------------------------------------------
(* Properties. *)

\* The type of every variable.
TypeOK ==
  /\ pc \in {"observe", "trade"} /\ logging \in BOOLEAN
  /\ fills \in [1..Window -> [kind : Verdicts \cup {"none", "open"}, count : 0..MaxChunks]]
  /\ hist \in [1..History -> {"none", "calm", "bad"}]
  /\ risk \in [losses : 0..(MaxLosses + MaxChunks), cooling : 0..CoolCycles]
  /\ plan.stage \in 0..4 /\ plan.sides \subseteq {"buy", "sell"}
  /\ plan.mode \in SellModes \cup {"TREND_DOWN", "NO_TRADE"}
  /\ plan.tick \in V7Modes \cup SellModes
  /\ {plan.quotes, plan.sized, plan.bad, plan.calm} \subseteq BOOLEAN

\* Nearly all fills of the window were toxic, many of them just now: neither the
\* strategy's quotes nor the activity floor trade, whatever the market looks like.
QuotesStopAfterToxicCluster ==
  [][ LET quality == Quality(fills) IN
      pc = "trade" /\ quality.cluster >= KillCluster /\ quality.toxic >= KillToxic
      => \A side \in {"buy", "sell"} : ~Fill(side, "quote") /\ ~Fill(side, "floor") ]_vars

\* The lock after too many losing trades is final: only a trade that does not
\* lose takes it away, and a locked bot does not trade, not even to get out.
LockIsFinal ==
  [][ Locked => Locked' /\ (pc = "trade" => fills'[1] = NoFills) ]_vars

\* The defence feeds itself: a stage of two or more makes the cycle a bad one, and
\* enough bad cycles make the stage two.  Once they are enough, every cycle that
\* is recorded keeps it so, however calm the market and however good the fills.
DefenceLatches ==
  [][ BadCycles >= Stage2Cycles /\ pc = "trade" /\ hist'[1] # "none"
      => Cardinality({age \in 1..History : hist'[age] = "bad"}) >= Stage2Cycles ]_vars

\* A hard pause ends when the market calms down: the fills that caused it leave
\* the window.
PauseEnds == <>[](plan.calm) => []<>(plan.stage < 4)

\* Without the history there is no latch: when the market calms down, so does
\* the bot.
CalmsDown == ~logging /\ <>[](plan.calm) => <>[](plan.stage = 0)
==============================================================================
