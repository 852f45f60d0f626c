----------------------------- MODULE AdaptivePlan -----------------------------
(***************************************************************************)
(* build_cycle_plan() (adaptive_market_maker.py): what the adaptive market *)
(* maker makes of a market and of the quality of the recent fills.  Pure   *)
(* operators; the numbers are the defaults of config.py and of the profile *)
(* v6_balanced_paper.                                                      *)
(*                                                                         *)
(* Ratios are in percent, returns, spread and distance in basis points,    *)
(* inventory and drawdown in permille, scores in hundredths of a point.    *)
(* m is the market of a tick with the sides that the intelligence layer    *)
(* leaves open; f is the quality of the recent fills.                      *)
(* How large an order is, is only told apart from nothing at all: "sized". *)
(***************************************************************************)
EXTENDS Integers, FiniteSetsExt

CONSTANTS
  Stage1Cycles, Stage2Cycles, Stage3Cycles,   \* stageN_toxic_cycles
  HardCluster, KillCluster                    \* toxic fills of a cluster

ASSUME PlanAssumption ==
  {Stage1Cycles, Stage2Cycles, Stage3Cycles, HardCluster, KillCluster} \subseteq Nat \ {0}

\* What build_market_snapshot() knows of the market and the account; the part that
\* concerns the fills is f.
Snapshot ==
  [short : Int, medium : Int, distance : Int, spread : Nat, volBps : Nat, vol : Nat,
   persist : 0..100, noise : 0..100, micro : 0..200, jumps : 0..100, shaky : 0..150,
   fillRate : 0..100, inv : 0..1000, drawdown : Nat, accel : Nat, cooling : BOOLEAN,
   sides : SUBSET {"buy", "sell"}]

Smaller(a, b) == IF a < b THEN a ELSE b
Larger(a, b)  == IF a < b THEN b ELSE a
Clamp(x, low, high) == Larger(low, Smaller(x, high))
Pos(x)  == Larger(x, 0)
Size(x) == IF x < 0 THEN -x ELSE x

\* ADAPTIVE_REGIME_*: the width of a breakout and the scores that count.
Breakout    == 28
Illiquid    == 18
Confidence  == 5000
EventScore  == 8200
IlliquidScore == 8400

\* ADAPTIVE_RISK_* and ADAPTIVE_ADVERSE_*: what starts a stage of defence.
SoftToxic == 40
HardToxic == 58
KillToxic == 82
SoftDrawdown == 40
HardDrawdown == 70
KillDrawdown == 120
HardAccel    == 35
AdverseWiden  == 28
AdverseReduce == 46
AdverseDefend == 64

\* Half widths of the inventory bands around the centre.
Band == [neutral |-> 50, soft |-> 100, strong |-> 150, hard |-> 160]

\* The profile.
Strictness == 92
EdgeOf == [full |-> 1800, cautious |-> -100, reduced |-> -2000, block |-> -4400]

\* quote_pressure_score of the snapshot.
Pressure(m, f) ==
  Clamp((f.toxic * 40 + f.adverse * 30) \div 100 + (Pos(m.spread - Illiquid) * 3) \div 2, 0, 100)

-----------------------------------------------------------------------------
(* classify_regime() *)

RangeScore(m, f) ==
  Clamp(Pos(125 - m.vol) * 18 + Pos(100 - (m.micro * 70) \div 100) * 18
        + m.noise * 16 + Pos(100 - m.persist) * 14
        + Smaller((Size(m.distance) * 100) \div Breakout, 150) * 14
        + Pos(100 - m.shaky) * 10 + Pos(100 - f.toxic) * 10
        + Pos(100 - (m.jumps * 150) \div 100) * 10, 0, 10000)

\* way is 1 for up and -1 for down.
TrendScore(m, f, way) ==
  Clamp((Pos(way * m.medium) * 2800) \div Breakout + (Pos(way * m.short) * 1600) \div Breakout
        + m.micro * 18 + m.persist * 18 + Pos(100 - m.noise) * 10
        + Pos(100 - m.shaky) * 6 + Pos(100 - f.toxic) * 4
        - f.toxic * 10 - f.adverse * 6 - m.shaky * 8 - m.jumps * 10
        - Pos(m.vol - 100) * 8, 0, 10000)

ChaosScore(m, f) ==
  Clamp(Pos(m.vol - 100) * 26 + m.shaky * 22 + f.toxic * 24 + f.adverse * 16
        + m.jumps * 20 + Pressure(m, f) * 12
        + Smaller((m.drawdown * 12) \div 10, 100) * 8 + m.micro * 4, 0, 10000)

Scores(m, f) ==
  [RANGE |-> RangeScore(m, f), TREND_UP |-> TrendScore(m, f, 1),
   TREND_DOWN |-> TrendScore(m, f, -1), CHAOS |-> ChaosScore(m, f)]

\* Equal scores are ranked by their names.
Ranked == <<"CHAOS", "RANGE", "TREND_DOWN", "TREND_UP">>

Regime(m, score) ==
  LET of(i)  == score[Ranked[i]]
      best   == CHOOSE i \in 1..4 :
                  \A j \in 1..4 \ {i} : of(i) > of(j) \/ (of(i) = of(j) /\ i < j)
      second == Max({of(j) : j \in 1..4 \ {best}})
      name   == Ranked[best]
      drift(part, scale) == (m.short * 100 * part) \div (Breakout * scale)
  IN  [name       |-> name,
       confidence |-> (of(best) * 60) \div 100 + ((of(best) - second) * 40) \div 100,
       chaos      |-> score.CHAOS,
       bias       |->
         CASE name = "TREND_UP"   -> Clamp(drift(55, 100) + (m.persist * 45) \div 100, 0, 100)
           [] name = "TREND_DOWN" -> -Clamp((Size(m.short) * 55) \div Breakout
                                            + (m.persist * 45) \div 100, 0, 100)
           [] name = "CHAOS"      -> Clamp(drift(10, 15), -40, 40)
           [] name = "RANGE"      -> Clamp(drift(10, 25), -18, 18)]

-----------------------------------------------------------------------------
(* score_edge() *)

Way(r) == CASE r.name = "TREND_UP" -> 1 [] r.name = "TREND_DOWN" -> -1 [] OTHER -> 0

Reversion(m, r) ==
  LET raw == Clamp((Smaller((Size(m.distance) * 100) \div Breakout, 140) * 65 + m.noise * 35
                    - m.jumps * 45) \div 100, -100, 100)
  IN  IF r.name = "RANGE" THEN raw ELSE (raw * 55) \div 100

Capture(m) ==
  Clamp((Smaller((m.spread * 100) \div Larger((m.volBps * 55) \div 100, 4), 150) * 75) \div 100
        + Smaller((m.fillRate * 250) \div 100, 35) - (m.shaky * 35) \div 100, -100, 100)

QueueQuality(m, f) ==
  Clamp(100 - (Smaller(Size(f.gap) * 4, 100) * 35) \div 100 - (m.shaky * 20) \div 100, 0, 100)

Penalty(raw, cap, weight) == (Clamp(raw, 0, cap) * weight * Strictness) \div 100

Penalties(m, f) ==
  Penalty((Pos(m.vol - 95) * 55 + m.jumps * 45) \div 100, 160, 16)
  + Penalty((f.adverse * 125) \div 100 + (Pos(f.gap) * 100) \div 35, 160, 18)
  + Penalty((f.toxic * 105 + m.shaky * 35) \div 100 + (Pos(f.gap) * 100) \div 40, 160, 15)
  + Penalty((f.toxic * 120 + Pressure(m, f) * 65 + m.jumps * 40) \div 100, 180, 16)
  + (Pos(m.shaky - 25) * 12 * Strictness) \div 100
  + (Smaller(m.drawdown * 8, 1000) * Strictness) \div 100
  + IF m.cooling THEN 500 ELSE 0

Recovery(m, r) ==
  LET weight == CASE r.name = "RANGE" -> 60 [] r.name = "CHAOS" -> 18 [] OTHER -> 42
  IN  (Clamp((Size(m.inv - 500) * 100) \div 180, 0, 150) * weight * 12) \div 100

\* Without a spread there is no quote to judge.  A tick without a price does not
\* get here, and one with a price has reset the count of invalid ones, so that the
\* health of the source is full.
HardBlocked(m, f) ==
  \/ m.spread = 0
  \/ 10 * m.spread >= 24 * Illiquid /\ m.shaky >= 45
  \/ 10 * f.toxic >= 904
  \/ f.gap >= 18 /\ f.count >= 3

Edge(m, f, r) ==
  LET total ==
        Clamp(Way(r) * Clamp((m.medium * 10000) \div (Breakout * 120), -100, 100) * 24
              + Reversion(m, r) * 18 + Capture(m) * 22 + Recovery(m, r)
              + Clamp(2 * QueueQuality(m, f) - 100, -100, 100) * 10 - Penalties(m, f),
              -10000, 10000)
  IN  IF HardBlocked(m, f) THEN Smaller(total, EdgeOf.block - 400) ELSE total

Permission(m, f, edge) ==
  IF HardBlocked(m, f) THEN "BLOCKED"
  ELSE IF edge >= EdgeOf.full THEN "FULL"
  ELSE IF edge >= EdgeOf.cautious THEN "CAUTIOUS"
  ELSE IF edge >= EdgeOf.reduced THEN "REDUCED"
  ELSE IF edge >= EdgeOf.block THEN "DEFENSIVE_ONLY"
  ELSE "BLOCKED"

\* _edge_posture(): below a level of 8 of 100 nothing is quoted.
StandbyPosture(edge) == (edge + 10000) \div 2 < 800

-----------------------------------------------------------------------------
(* classify_inventory_band() *)

Centre(r) ==
  LET budget == Smaller((Band.strong * 75) \div 100, 120) IN
  CASE r.name = "TREND_UP"   -> Clamp(500 + (Pos(r.bias) * budget) \div 100, 500, 680)
    [] r.name = "TREND_DOWN" -> Clamp(500 - (Pos(-r.bias) * budget) \div 100, 320, 500)
    [] OTHER                 -> 500

\* In chaos the bands are narrower.
Width(r, zone) == IF r.name = "CHAOS" THEN (Band[zone] * 80) \div 100 ELSE Band[zone]

Inside(m, r, zone) == Size(m.inv - Centre(r)) <= Width(r, zone)

\* The side that brings the inventory back, none in the neutral zone.
RebalanceSide(m, r) ==
  IF Inside(m, r, "neutral") THEN "" ELSE IF m.inv > Centre(r) THEN "sell" ELSE "buy"

Breached(m, r) == \A zone \in DOMAIN Band : ~Inside(m, r, zone)

-----------------------------------------------------------------------------
(* govern_risk().  bad is the count of bad cycles in the history, losing what *)
(* the history says of realised losses.                                       *)

\* The checks of liquidity and of invalid prices cannot be met: the estimate is
\* twice the illiquid one at least, and the count of invalid prices is reset
\* before the plan is built.
MustPause(m, f) ==
  \/ f.cluster >= KillCluster /\ f.toxic >= KillToxic
  \/ m.spread >= 2 * Illiquid /\ m.shaky >= 40
  \/ m.drawdown >= KillDrawdown
  \/ HardBlocked(m, f)

ToxicCluster(f, bad) ==
  f.cluster >= HardCluster \/ (f.toxic >= HardToxic /\ bad >= Stage3Cycles)

StrongDefence(m, f, bad, losing) ==
  f.toxic >= SoftToxic \/ f.adverse >= AdverseReduce \/ bad >= Stage2Cycles
    \/ m.drawdown >= HardDrawdown \/ losing

MildDefence(m, f, permission, bad) ==
  bad >= Stage1Cycles \/ f.adverse >= AdverseWiden \/ m.drawdown >= SoftDrawdown
    \/ 100 * f.toxic >= 85 * SoftToxic \/ 100 * m.spread >= 135 * Illiquid
    \/ permission = "REDUCED"

\* Mutant of Stage: the pause is not one of the stages.
StageUnpaused(m, f, r, permission, bad, losing) ==
  IF Breached(m, r) \/ ToxicCluster(f, bad) \/ m.accel >= HardAccel THEN 3
  ELSE IF StrongDefence(m, f, bad, losing) THEN 2
  ELSE IF MildDefence(m, f, permission, bad) THEN 1
  ELSE 0

Stage(m, f, r, permission, bad, losing) ==
  IF MustPause(m, f) THEN 4
  ELSE IF Breached(m, r) \/ ToxicCluster(f, bad) \/ m.accel >= HardAccel THEN 3
  ELSE IF StrongDefence(m, f, bad, losing) THEN 2
  ELSE IF MildDefence(m, f, permission, bad) THEN 1
  ELSE 0

\* The governor takes a side away only in the third stage, in chaos.
GovernorBars(m, f, r, stage) ==
  IF stage = 3 /\ ~Breached(m, r) /\ r.name = "CHAOS" /\ f.toxic >= 78
  THEN CASE RebalanceSide(m, r) = "sell" -> {"buy"}
         [] RebalanceSide(m, r) = "buy"  -> {"sell"}
         [] OTHER -> {}
  ELSE {}

-----------------------------------------------------------------------------
(* select_mode() and apply_intelligence_overrides() *)

SevereIlliquidity(m, f) ==
  Clamp((Smaller((Pos(m.spread - Illiquid) * 100) \div Illiquid, 200) * 40)
        + m.shaky * 20 + Pressure(m, f) * 5, 0, 10000)

\* The permission that counts: a blocked one becomes a defensive one, or, when
\* the posture is standby, a reduced one.
EffectivePermission(f, edge, permission, stage) ==
  LET open == IF permission # "BLOCKED" THEN permission
              ELSE IF StandbyPosture(edge) THEN "REDUCED" ELSE "DEFENSIVE_ONLY"
  IN  IF stage >= 3 \/ f.adverse >= AdverseDefend THEN "DEFENSIVE_ONLY"
      ELSE IF stage >= 1 /\ open = "FULL" THEN "CAUTIOUS"
      ELSE open

\* The sides the mode takes away.
ModeBars(m, f, r, allowed) ==
  LET side    == RebalanceSide(m, r)
      defend  == allowed = "DEFENSIVE_ONLY"
      against == CASE side = "sell" -> {"buy"} [] side = "buy" -> {"sell"} [] OTHER -> {}
  IN  CASE r.name = "RANGE"      -> IF defend THEN against ELSE {}
        [] r.name = "TREND_UP"   -> IF defend THEN against \cap {"buy"} ELSE {}
        [] r.name = "TREND_DOWN" -> IF side = "sell" \/ (defend /\ side # "buy")
                                    THEN {"buy"} ELSE {}
        [] r.name = "CHAOS"      ->
             (IF defend THEN against ELSE {})
               \cup (IF f.toxic >= 80 \/ f.adverse >= 82
                     THEN IF side # "" THEN against
                          ELSE IF r.bias >= 0 THEN {"sell"} ELSE {"buy"}
                     ELSE {})

ModeOf(r) ==
  CASE r.name = "TREND_UP" /\ r.confidence >= Confidence   -> "TREND_UP"
    [] r.name = "TREND_DOWN" /\ r.confidence >= Confidence -> "TREND_DOWN"
    [] OTHER -> "RANGE_MAKER"

\* Nothing is quoted in a hard pause, in extreme chaos and without a book.
Standby(m, f, r, stage) ==
  stage = 4 \/ r.chaos >= EventScore \/ SevereIlliquidity(m, f) >= IlliquidScore

Barred(m, f, r, stage, allowed) ==
  GovernorBars(m, f, r, stage) \cup
    IF Breached(m, r)
    THEN {IF RebalanceSide(m, r) = "sell" THEN "buy" ELSE "sell"}
    ELSE ModeBars(m, f, r, allowed)

\* The sides the strategy may quote: nobody opens what another one has closed.
Sides(m, f, r, stage, allowed) ==
  IF Standby(m, f, r, stage) THEN {} ELSE m.sides \ Barred(m, f, r, stage, allowed)

\* An order of the plan has no size in standby and with a very bad edge.
Sized(m, f, r, edge, stage) == ~Standby(m, f, r, stage) /\ ~StandbyPosture(edge)

\* The plan of a cycle in the regime r and with this edge: the stage, the strategy
\* mode, what the bot may quote, and whether its orders have a size at all.
Plan(m, f, r, edge, bad, losing) ==
  LET permission == Permission(m, f, edge)
      stage      == Stage(m, f, r, permission, bad, losing)
      allowed    == EffectivePermission(f, edge, permission, stage)
      sides      == Sides(m, f, r, stage, allowed)
  IN  [stage  |-> stage,
       mode   |-> IF Standby(m, f, r, stage) THEN "NO_TRADE"
                  ELSE IF Breached(m, r)
                  THEN IF RebalanceSide(m, r) = "sell" THEN "OVERWEIGHT_EXIT" ELSE "RANGE_MAKER"
                  ELSE ModeOf(r),
       quotes |-> /\ ~Standby(m, f, r, stage)
                  /\ sides = {} => r.name # "CHAOS" \/ Breached(m, r),
       sides  |-> sides,
       sized  |-> Sized(m, f, r, edge, stage)]
==============================================================================
