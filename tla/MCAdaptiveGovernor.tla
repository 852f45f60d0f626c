-------------------------- MODULE MCAdaptiveGovernor --------------------------
EXTENDS AdaptiveGovernor

\* A range without a trend, and with both sides open.
Calm == [short |-> 0, medium |-> 0, distance |-> 20, spread |-> 18, volBps |-> 12, vol |-> 60,
         persist |-> 40, noise |-> 60, micro |-> 30, jumps |-> 0, shaky |-> 5, fillRate |-> 20,
         inv |-> 500, drawdown |-> 0, accel |-> 0, cooling |-> FALSE, sides |-> {"buy", "sell"}]

CalmTrend == [Calm EXCEPT !.short = 30, !.medium = 45, !.distance = 25, !.persist = 90,
                          !.noise = 10, !.micro = 60, !.vol = 90]
Chaos     == [Calm EXCEPT !.short = -60, !.medium = -20, !.vol = 210, !.volBps = 60, !.shaky = 30,
                          !.micro = 90, !.jumps = 40, !.noise = 20, !.spread = 24, !.accel = 20]
Overweight == [Calm EXCEPT !.inv = 720, !.drawdown = 60, !.cooling = TRUE, !.sides = {"sell"}]

MCCalmMarkets == {Calm, CalmTrend}
MCMarkets     == MCCalmMarkets \cup {Chaos, Overweight}
==============================================================================
