----------------------- MODULE AdaptiveGovernorProofs -----------------------
(***************************************************************************)
(* Theorems about the two feedback loops around a tick: a locked bot does  *)
(* not trade again, a defence that the history has latched stays, and no   *)
(* quote follows a cluster of toxic fills, for all markets, windows and    *)
(* limits.                                                                 *)
(***************************************************************************)
EXTENDS AdaptiveGovernor, FiniteSetTheorems, TLAPS

\* The fills of the window are a toxic cluster that stops the bot.
ToxicWindow ==
  Quality(fills).cluster >= KillCluster /\ Quality(fills).toxic >= KillToxic

\* What the plan of a tick has made of the lock, the history and the fills, all of
\* which stay until the tick trades.
PlanHeeds ==
  pc = "trade" =>
    /\ Locked => plan.tick = "NO_TRADE"
    /\ BadCycles >= Stage2Cycles => plan.bad
    /\ ToxicWindow => ~plan.sized /\ ~plan.quotes

\* The inductive invariant.
GovernorInv == TypeOK /\ PlanHeeds

-----------------------------------------------------------------------------
(* Parameters and operators *)

LEMMA Parameters ==
  /\ Window \in Nat \ {0} /\ History \in Nat \ {0} /\ MaxLosses \in Nat \ {0}
  /\ MaxChunks \in Nat \ {0} /\ CoolCycles \in Nat /\ Stage2Cycles \in Nat \ {0}
BY GovernorAssumption, PlanAssumption, Zenon

\* The fills of the window, a fill and an entry of the history.
FillRecord == [kind : Verdicts \cup {"none", "open"}, count : 0..MaxChunks]
Entries    == {"none", "calm", "bad"}

\* A cycle later the window is a window.
LEMMA AgedTyped ==
  ASSUME fills \in [1..Window -> FillRecord], NEW new \in FillRecord
  PROVE  Aged(fills, new) \in [1..Window -> FillRecord]
<1>1. Window \in Nat \ {0}
  BY Parameters
<1> HIDE DEF FillRecord
<1>2. ASSUME NEW age \in 1..Window
      PROVE  (IF age = 1 THEN new ELSE fills[age - 1]) \in FillRecord
  <2>1. age # 1 => age - 1 \in 1..Window
    BY <1>1
  <2> QED BY <2>1
<1> QED BY <1>2 DEF Aged

LEMMA RememberedTyped ==
  ASSUME hist \in [1..History -> Entries], NEW entry \in Entries
  PROVE  Remembered(entry) \in [1..History -> Entries]
<1>1. History \in Nat \ {0}
  BY Parameters
<1> HIDE DEF Entries
<1>2. ASSUME NEW age \in 1..History
      PROVE  (IF age = 1 THEN entry ELSE hist[age - 1]) \in Entries
  <2>1. age # 1 => age - 1 \in 1..History
    BY <1>1
  <2> QED BY <2>1
<1> QED BY <1>2 DEF Remembered

LEMMA EntryTyped == \A recorded : Entry(recorded) \in Entries
BY DEF Entry, Entries

\* A fill that is judged is a fill.
LEMMA JudgedTyped ==
  ASSUME fills \in [1..Window -> FillRecord],
         NEW verdict \in [{age \in 1..Window : Due(age)} -> Verdicts]
  PROVE  Judged(verdict) \in [1..Window -> FillRecord]
<1>1. ASSUME NEW age \in 1..Window
      PROVE  (IF Due(age) THEN [fills[age] EXCEPT !.kind = verdict[age]] ELSE fills[age])
               \in FillRecord
  <2>1. fills[age] \in FillRecord
    OBVIOUS
  <2>2. CASE Due(age)
    <3>1. verdict[age] \in Verdicts
      BY <2>2
    <3> QED BY <2>1, <2>2, <3>1 DEF FillRecord
  <2> QED BY <2>1, <2>2
<1> QED BY <1>1 DEF Judged

-----------------------------------------------------------------------------
(* Plans *)

\* What a plan is made of.
LEMMA PlanTyped ==
  ASSUME NEW m \in Markets, NEW f, NEW r, NEW edge, NEW bad, NEW losing
  PROVE  LET p == Plan(m, f, r, edge, bad, losing) IN
         /\ p.stage \in 0..4
         /\ p.mode \in {"TREND_UP", "TREND_DOWN", "RANGE_MAKER", "OVERWEIGHT_EXIT",
                        "NO_TRADE"}
         /\ p.quotes \in BOOLEAN /\ p.sized \in BOOLEAN
         /\ p.sides \subseteq {"buy", "sell"}
<1>1. m.sides \subseteq {"buy", "sell"}
  <2>1. m \in Snapshot
    BY GovernorAssumption, Zenon
  <2> QED BY <2>1, Zenon DEF Snapshot
<1>2. \A permission : Stage(m, f, r, permission, bad, losing) \in {0, 1, 2, 3, 4}
  BY Zenon DEF Stage
<1>3. \A stage, allowed : Sides(m, f, r, stage, allowed) \subseteq {"buy", "sell"}
  BY <1>1 DEF Sides
<1>4. ModeOf(r) \in {"TREND_UP", "TREND_DOWN", "RANGE_MAKER"}
  BY DEF ModeOf
<1> QED BY <1>2, <1>3, <1>4 DEF Plan, Sized

\* A reason for a pause stops the quotes, and enough bad cycles are a reason for
\* the second stage.
LEMMA PlanStops ==
  ASSUME NEW m, NEW f, NEW r, NEW edge, NEW bad, NEW losing
  PROVE  LET p == Plan(m, f, r, edge, bad, losing) IN
         /\ MustPause(m, f) => ~p.quotes /\ ~p.sized
         /\ bad >= Stage2Cycles => p.stage >= 2
<1> DEFINE permission == Permission(m, f, edge)
           stage == Stage(m, f, r, permission, bad, losing)
<1>1. MustPause(m, f) => stage = 4
  BY DEF Stage
<1>2. bad >= Stage2Cycles => stage \in {2, 3, 4}
  BY DEF Stage, StrongDefence
<1>3. stage = 4 => Standby(m, f, r, stage)
  BY Zenon DEF Standby
<1> HIDE DEF stage
<1>4. /\ Plan(m, f, r, edge, bad, losing).stage = stage
      /\ Standby(m, f, r, stage) => ~Plan(m, f, r, edge, bad, losing).quotes
                                    /\ ~Plan(m, f, r, edge, bad, losing).sized
  BY Zenon DEF Plan, Sized, stage
<1> QED BY <1>1, <1>2, <1>3, <1>4

-----------------------------------------------------------------------------
(* Steps *)

Modes == V7Modes \cup SellModes

\* The parts of TypeOK that belong together.
LEMMA TypeParts ==
  TypeOK <=>
    /\ pc \in {"observe", "trade"} /\ logging \in BOOLEAN
    /\ fills \in [1..Window -> FillRecord] /\ hist \in [1..History -> Entries]
    /\ risk \in [losses : 0..(MaxLosses + MaxChunks), cooling : 0..CoolCycles]
    /\ plan.stage \in 0..4 /\ plan.sides \subseteq {"buy", "sell"}
    /\ plan.mode \in SellModes \cup {"TREND_DOWN", "NO_TRADE"}
    /\ plan.tick \in Modes
    /\ {plan.quotes, plan.sized, plan.bad, plan.calm} \subseteq BOOLEAN
BY Zenon DEF TypeOK, FillRecord, Entries, Modes

\* A plan that is over.
LEMMA OverTyped ==
  ASSUME TypeOK, plan' = NoPlan \/ PlanOver
  PROVE  /\ plan'.stage \in 0..4 /\ plan'.sides \subseteq {"buy", "sell"}
         /\ plan'.mode \in SellModes \cup {"TREND_DOWN", "NO_TRADE"}
         /\ plan'.tick \in Modes
         /\ {plan'.quotes, plan'.sized, plan'.bad, plan'.calm} \subseteq BOOLEAN
<1>1. plan.stage \in 0..4 /\ plan.calm \in BOOLEAN
  BY DEF TypeOK
<1>2. PICK stage \in 0..4, calm \in BOOLEAN :
        plan' = [stage |-> stage, mode |-> "RANGE_MAKER", quotes |-> TRUE,
                 sides |-> {}, sized |-> TRUE, tick |-> "NO_TRADE",
                 bad |-> FALSE, calm |-> calm]
  <2>1. CASE plan' = NoPlan
    <3>1. 0 \in 0..4 /\ FALSE \in BOOLEAN
      OBVIOUS
    <3> QED BY <2>1, <3>1, Zenon DEF NoPlan
  <2>2. CASE PlanOver
    <3>1. plan' = [stage |-> plan.stage, mode |-> "RANGE_MAKER", quotes |-> TRUE,
                   sides |-> {}, sized |-> TRUE, tick |-> "NO_TRADE",
                   bad |-> FALSE, calm |-> plan.calm]
      BY <2>2 DEF PlanOver, NoPlan
    <3> QED BY <1>1, <3>1, Zenon
  <2> QED BY <2>1, <2>2
<1>3. /\ plan'.stage \in 0..4 /\ plan'.sides = {}
      /\ plan'.mode = "RANGE_MAKER" /\ plan'.tick = "NO_TRADE"
  BY <1>2
<1>4. /\ plan'.quotes \in BOOLEAN /\ plan'.sized \in BOOLEAN
      /\ plan'.bad \in BOOLEAN /\ plan'.calm \in BOOLEAN
  BY <1>2
<1>5. "RANGE_MAKER" \in SellModes /\ "NO_TRADE" \in Modes
  BY DEF SellModes, Modes, V7Modes
<1> QED BY <1>3, <1>4, <1>5, Zenon

\* The end of a cycle.
LEMMA EndTyped ==
  ASSUME TypeOK, NEW recorded, NEW new \in FillRecord, EndCycle(recorded, new)
  PROVE  /\ pc' = "observe" /\ logging' \in BOOLEAN
         /\ fills' \in [1..Window -> FillRecord] /\ hist' \in [1..History -> Entries]
BY TypeParts, AgedTyped, RememberedTyped, EntryTyped, Zenon DEF EndCycle

LEMMA NoFillTyped ==
  ASSUME TypeOK
  PROVE  /\ AfterNoFill \in [losses : 0..(MaxLosses + MaxChunks), cooling : 0..CoolCycles]
         /\ NoFills \in FillRecord
<1>1. risk \in [losses : 0..(MaxLosses + MaxChunks), cooling : 0..CoolCycles]
  BY DEF TypeOK
<1>2. Pos(risk.cooling - 1) \in 0..CoolCycles
  <2>1. risk.cooling \in 0..CoolCycles /\ CoolCycles \in Nat
    BY <1>1, Parameters
  <2> QED BY <2>1 DEF Pos, Larger
<1>3. AfterNoFill = [risk EXCEPT !.cooling = Pos(risk.cooling - 1)]
  BY DEF AfterNoFill
<1>4. NoFills \in FillRecord
  BY Parameters DEF NoFills, FillRecord
<1> QED BY <1>1, <1>2, <1>3, <1>4

\* No cycle ends in the middle of a tick, so that nothing is left to heed.
LEMMA OverKeeps ==
  ASSUME pc' = "observe"
  PROVE  PlanHeeds'
BY DEF PlanHeeds

LEMMA GovernorBegins == Init => GovernorInv
<1> SUFFICES ASSUME Init PROVE GovernorInv
  OBVIOUS
<1>1. fills \in [1..Window -> FillRecord] /\ hist \in [1..History -> Entries]
  <2>1. NoFills \in FillRecord
    BY Parameters DEF NoFills, FillRecord
  <2> QED BY <2>1 DEF Init, Entries
<1>2. risk \in [losses : 0..(MaxLosses + MaxChunks), cooling : 0..CoolCycles]
  BY Parameters DEF Init
<1>3. TypeOK
  BY <1>1, <1>2, TypeParts DEF Init, NoPlan, SellModes, Modes, V7Modes
<1>4. PlanHeeds
  BY DEF Init, PlanHeeds
<1> QED BY <1>3, <1>4 DEF GovernorInv

LEMMA NoPlanTickKeeps ==
  ASSUME GovernorInv, NoPlanTick
  PROVE  GovernorInv'
<1>1. /\ TypeOK /\ EndCycle(FALSE, NoFills) /\ risk' = AfterNoFill /\ plan' = NoPlan
  BY DEF GovernorInv, NoPlanTick
<1>2. TypeOK'
  BY <1>1, EndTyped, NoFillTyped, OverTyped, TypeParts, Zenon
    DEF TypeOK, FillRecord, Entries, Modes
<1>3. pc' = "observe"
  BY <1>1 DEF EndCycle
<1> QED BY <1>2, <1>3, OverKeeps DEF GovernorInv

LEMMA NoFillKeeps ==
  ASSUME GovernorInv, NoFill
  PROVE  GovernorInv'
<1>1. PICK recorded \in BOOLEAN : EndCycle(recorded, NoFills)
  BY DEF NoFill
<1>2. TypeOK /\ risk' = AfterNoFill /\ PlanOver
  BY DEF GovernorInv, NoFill
<1>3. TypeOK'
  BY <1>1, <1>2, EndTyped, NoFillTyped, OverTyped, TypeParts, Zenon
    DEF TypeOK, FillRecord, Entries, Modes
<1>4. pc' = "observe"
  BY <1>1 DEF EndCycle
<1> QED BY <1>3, <1>4, OverKeeps DEF GovernorInv

\* No mode in which a side is placed is the mode of a locked bot.
LEMMA LockedPlacesNothing ==
  ASSUME GovernorInv, Locked, NEW side \in {"buy", "sell"}, NEW source
  PROVE  ~Fill(side, source)
<1> SUFFICES ASSUME Fill(side, source) PROVE FALSE
  OBVIOUS
<1>1. pc = "trade" /\ plan.tick \in BuyModes \cup SellModes
  BY DEF Fill
<1>2. plan.tick = "NO_TRADE"
  BY <1>1 DEF GovernorInv, PlanHeeds
<1> QED BY <1>1, <1>2 DEF BuyModes, SellModes

LEMMA FillKeeps ==
  ASSUME GovernorInv, NEW side \in {"buy", "sell"}, NEW source, Fill(side, source)
  PROVE  GovernorInv'
<1>1. PICK count \in 1..MaxChunks, loss \in BOOLEAN, recorded \in BOOLEAN :
        /\ EndCycle(recorded, [kind |-> "open", count |-> count])
        /\ risk' = AfterFills(count, loss)
  BY DEF Fill
<1>2. TypeOK /\ PlanOver /\ ~Locked
  BY LockedPlacesNothing DEF GovernorInv, Fill
<1>3. [kind |-> "open", count |-> count] \in FillRecord
  BY DEF FillRecord
<1>4. risk' \in [losses : 0..(MaxLosses + MaxChunks), cooling : 0..CoolCycles]
  <2>1. /\ risk.losses \in Nat /\ ~(risk.losses >= MaxLosses) /\ MaxLosses \in Nat
        /\ MaxChunks \in Nat /\ CoolCycles \in Nat
    BY <1>2, Parameters DEF TypeOK, Locked
  <2>2. risk.losses + count \in 0..(MaxLosses + MaxChunks)
    BY <2>1
  <2> QED BY <1>1, <2>1, <2>2 DEF AfterFills
<1>5. TypeOK'
  BY <1>1, <1>2, <1>3, <1>4, EndTyped, OverTyped, TypeParts, Zenon
    DEF TypeOK, FillRecord, Entries, Modes
<1>6. pc' = "observe"
  BY <1>1 DEF EndCycle
<1> QED BY <1>5, <1>6, OverKeeps DEF GovernorInv

\* What a plan says of the lock, of the bad cycles and of a toxic cluster.
LEMMA PlanMade ==
  ASSUME TypeOK, NEW m \in Markets, NEW losing \in BOOLEAN, NEW calm \in BOOLEAN,
         MakePlan(m, losing, calm)
  PROVE  /\ plan'.stage \in 0..4 /\ plan'.sides \subseteq {"buy", "sell"}
         /\ plan'.mode \in SellModes \cup {"TREND_DOWN", "NO_TRADE"}
         /\ plan'.tick \in Modes
         /\ {plan'.quotes, plan'.sized, plan'.bad, plan'.calm} \subseteq BOOLEAN
         /\ Locked => plan'.tick = "NO_TRADE"
         /\ BadCycles >= Stage2Cycles => plan'.bad
         /\ ToxicWindow' => ~plan'.sized /\ ~plan'.quotes
<1>1. PICK quality \in {Quality(fills')} :
        \E score   \in {Scores(m, quality)} :
        \E regime  \in {Regime(m, score)} :
        \E edge    \in {Edge(m, quality, regime)} :
        \E answer  \in {Plan(m, quality, regime, edge, BadCycles, losing)} :
        \E tick    \in TickModes(answer.mode) :
          plan' = Kept(answer, quality, calm, tick)
  BY DEF MakePlan
<1>2. PICK regime, edge :
        \E answer \in {Plan(m, quality, regime, edge, BadCycles, losing)} :
        \E tick   \in TickModes(answer.mode) :
          plan' = Kept(answer, quality, calm, tick)
  BY <1>1
<1>3. PICK answer \in {Plan(m, quality, regime, edge, BadCycles, losing)} :
        \E tick \in TickModes(answer.mode) :
          plan' = Kept(answer, quality, calm, tick)
  BY <1>2
<1>4. PICK tick \in TickModes(answer.mode) : plan' = Kept(answer, quality, calm, tick)
  BY <1>3
<1>5. /\ answer.stage \in 0..4
      /\ answer.mode \in {"TREND_UP", "TREND_DOWN", "RANGE_MAKER", "OVERWEIGHT_EXIT",
                          "NO_TRADE"}
      /\ answer.quotes \in BOOLEAN /\ answer.sized \in BOOLEAN
      /\ answer.sides \subseteq {"buy", "sell"}
  <2>1. answer = Plan(m, quality, regime, edge, BadCycles, losing)
    OBVIOUS
  <2> QED BY <2>1, PlanTyped
<1>6. /\ MustPause(m, quality) => ~answer.quotes /\ ~answer.sized
      /\ BadCycles >= Stage2Cycles => answer.stage >= 2
  BY PlanStops, Zenon
<1>7. /\ plan'.stage = answer.stage /\ plan'.mode = answer.mode
      /\ plan'.sides = answer.sides /\ plan'.tick = tick
  BY <1>4 DEF Kept
<1>8. /\ plan'.quotes = answer.quotes /\ plan'.sized = answer.sized
      /\ plan'.bad = IsBad(quality, answer.stage) /\ plan'.calm = calm
  BY <1>4, Zenon DEF Kept
<1>9. tick \in Modes /\ (Locked => tick = "NO_TRADE")
  <2>1. PICK v7 \in V7Modes, measure \in BOOLEAN :
          tick = TickMode(v7, answer.mode, Refused(measure))
    BY DEF TickModes
  <2> QED BY <1>5, <2>1 DEF TickMode, Refused, Modes, V7Modes, SellModes
<1>10. plan'.mode \in SellModes \cup {"TREND_DOWN", "NO_TRADE"}
  BY <1>5, <1>7 DEF SellModes
<1>11. plan'.bad \in BOOLEAN
  BY <1>8 DEF IsBad
<1>12. BadCycles >= Stage2Cycles => plan'.bad
  BY <1>6, <1>8 DEF IsBad
<1>13. ToxicWindow' => MustPause(m, quality)
  BY DEF ToxicWindow, MustPause
<1>14. {plan'.quotes, plan'.sized, plan'.bad, plan'.calm} \subseteq BOOLEAN
  BY <1>5, <1>8, <1>11, Zenon
<1>15. ToxicWindow' => ~plan'.sized /\ ~plan'.quotes
  BY <1>6, <1>8, <1>13, Zenon
<1> QED BY <1>5, <1>7, <1>9, <1>10, <1>12, <1>14, <1>15, Zenon

\* The plan of a tick is made of the lock, of the history and of the fills that
\* are there until it trades.
LEMMA ObserveKeeps ==
  ASSUME GovernorInv, NEW m \in Markets, Observe(m)
  PROVE  GovernorInv'
<1>1. PICK verdict \in [{age \in 1..Window : Due(age)} -> Verdicts], losing \in BOOLEAN :
        /\ fills' = Judged(verdict)
        /\ MakePlan(m, losing,
                    /\ m \in CalmMarkets /\ ~losing
                    /\ \A age \in DOMAIN verdict : verdict[age] = "good")
  BY DEF Observe
<1>2. PICK calm \in BOOLEAN : MakePlan(m, losing, calm)
  BY <1>1, Zenon
<1>3. TypeOK /\ fills' \in [1..Window -> FillRecord]
  BY <1>1, JudgedTyped, TypeParts, Zenon DEF GovernorInv
<1>4. pc = "observe" /\ pc' = "trade" /\ UNCHANGED <<logging, hist, risk>>
  BY DEF Observe
<1>5. TypeOK'
  BY <1>2, <1>3, <1>4, PlanMade, Zenon DEF TypeOK, FillRecord, Modes
<1>6. (Locked' <=> Locked) /\ BadCycles' = BadCycles
  BY <1>4 DEF Locked, BadCycles
<1>7. PlanHeeds'
  BY <1>2, <1>3, <1>6, PlanMade, Zenon DEF PlanHeeds
<1> QED BY <1>5, <1>7 DEF GovernorInv

LEMMA IdleKeeps ==
  ASSUME GovernorInv, UNCHANGED vars
  PROVE  GovernorInv'
BY DEF GovernorInv, TypeOK, PlanHeeds, vars, Locked, BadCycles, ToxicWindow

LEMMA GovernorKept == GovernorInv /\ [Next]_vars => GovernorInv'
BY NoPlanTickKeeps, ObserveKeeps, FillKeeps, NoFillKeeps, IdleKeeps DEF Next

\* The inductive invariant of the two loops.
THEOREM GovernorSound == Spec => []GovernorInv
BY GovernorBegins, GovernorKept, PTL DEF Spec

\* The types hold in every state, for all markets, windows and limits; the count
\* of losing trades stays bounded, since a locked bot does not trade.
THEOREM GovernorTyped == Spec => []TypeOK
<1>1. GovernorInv => TypeOK
  BY DEF GovernorInv
<1> QED BY <1>1, GovernorSound, PTL

-----------------------------------------------------------------------------
(* What a step may never do *)

\* A locked bot places nothing until it is started again, not even to get out: the
\* mode of its ticks lets neither side through, and without a trade the count of
\* losing trades stays.
THEOREM LockFinal == Spec => LockIsFinal
<1>1. ASSUME GovernorInv, [Next]_vars, Locked
      PROVE  UNCHANGED vars \/ (Locked' /\ (pc = "trade" => fills'[1] = NoFills))
  <2>1. Window \in Nat \ {0} /\ 1 \in 1..Window
    BY Parameters
  <2>2. CASE NoPlanTick \/ NoFill
    <3>1. fills' = Aged(fills, NoFills) /\ risk' = AfterNoFill
      BY <2>2 DEF NoPlanTick, NoFill, EndCycle
    <3>2. fills'[1] = NoFills
      BY <2>1, <3>1 DEF Aged
    <3>3. risk'.losses = risk.losses
      BY <3>1, <1>1 DEF AfterNoFill, GovernorInv, TypeOK
    <3> QED BY <1>1, <3>2, <3>3 DEF Locked
  <2>3. CASE \E m \in Markets : Observe(m)
    BY <1>1, <2>3 DEF Observe, Locked
  <2>4. ASSUME NEW side \in {"buy", "sell"}, NEW source \in Sources, Fill(side, source)
        PROVE  FALSE
    BY <1>1, <2>4, LockedPlacesNothing
  <2> QED BY <1>1, <2>2, <2>3, <2>4 DEF Next
<1>2. GovernorInv /\ [Next]_vars =>
        [Locked => Locked' /\ (pc = "trade" => fills'[1] = NoFills)]_vars
  BY <1>1
<1> QED BY <1>2, GovernorSound, PTL DEF Spec, LockIsFinal

\* When nearly all fills of the window were toxic, many of them just now, neither
\* the strategy nor the activity floor trades: the pause comes before everything
\* else that the plan looks at.
THEOREM QuotesStop == Spec => QuotesStopAfterToxicCluster
<1>1. ASSUME GovernorInv, pc = "trade", ToxicWindow, NEW side \in {"buy", "sell"}
      PROVE  ~Fill(side, "quote") /\ ~Fill(side, "floor")
  <2>1. ~plan.sized /\ ~plan.quotes
    BY <1>1 DEF GovernorInv, PlanHeeds
  <2> QED BY <2>1 DEF Fill, QuoteBuy, QuoteSell, FloorTrade
<1>2. GovernorInv /\ [Next]_vars =>
        [ LET quality == Quality(fills) IN
          pc = "trade" /\ quality.cluster >= KillCluster /\ quality.toxic >= KillToxic
          => \A side \in {"buy", "sell"} :
               ~Fill(side, "quote") /\ ~Fill(side, "floor") ]_vars
  BY <1>1 DEF ToxicWindow
<1> QED BY <1>2, GovernorSound, PTL DEF Spec, QuotesStopAfterToxicCluster

\* A bad cycle more in a history of a fixed length: at most one other leaves it.
LEMMA BadRemembered ==
  ASSUME hist \in [1..History -> Entries], hist' = Remembered("bad")
  PROVE  BadCycles <= Cardinality({age \in 1..History : hist'[age] = "bad"})
<1> DEFINE old == {age \in 1..History : hist[age] = "bad"}
           now == {age \in 1..History : hist'[age] = "bad"}
           next(age) == IF age = History THEN 1 ELSE age + 1
           moved == [age \in old |-> next(age)]
<1>1. History \in Nat \ {0}
  BY Parameters
<1>2. IsFiniteSet(now)
  <2>1. IsFiniteSet(1..History)
    BY <1>1, FS_Interval
  <2> QED BY <2>1, FS_Subset
<1>3. \A age \in 1..History : hist'[age] = IF age = 1 THEN "bad" ELSE hist[age - 1]
  BY DEF Remembered
<1>4. ASSUME NEW age \in old
      PROVE  next(age) \in now
  <2>1. age \in 1..History /\ hist[age] = "bad"
    OBVIOUS
  <2>2. CASE age = History
    BY <1>1, <1>3, <2>2
  <2>3. CASE age # History
    <3>1. age + 1 \in 1..History /\ age + 1 # 1 /\ (age + 1) - 1 = age
      BY <1>1, <2>1, <2>3
    <3>2. hist'[age + 1] = hist[(age + 1) - 1]
      BY <1>3, <3>1
    <3> QED BY <2>1, <2>3, <3>1, <3>2
  <2> QED BY <2>2, <2>3
<1>5. ASSUME NEW a \in old, NEW b \in old, next(a) = next(b)
      PROVE  a = b
  <2>1. a \in 1..History /\ b \in 1..History
    OBVIOUS
  <2> HIDE DEF old
  <2> QED BY <1>1, <1>5, <2>1
<1>6. moved \in Injection(old, now)
  <2> HIDE DEF old, now, next
  <2>1. moved \in [old -> now]
    BY <1>4
  <2>2. \A a, b \in old : moved[a] = moved[b] => a = b
    BY <1>5
  <2> QED BY <2>1, <2>2 DEF Injection, IsInjective
<1>7. Cardinality(old) <= Cardinality(now)
  <2> HIDE DEF old, now, moved
  <2> QED BY <1>2, <1>6, FS_Injection
<1> QED BY <1>7 DEF BadCycles

\* Once the bad cycles are enough for the second stage they stay enough, whatever
\* the market and the fills: the plan of the cycle that is recorded is a bad one.
THEOREM LatchHolds == Spec => DefenceLatches
<1>1. ASSUME GovernorInv, [Next]_vars, pc = "trade", BadCycles >= Stage2Cycles,
             hist'[1] # "none"
      PROVE  \/ UNCHANGED vars
             \/ Cardinality({age \in 1..History : hist'[age] = "bad"}) >= Stage2Cycles
  <2>1. TypeOK /\ plan.bad
    BY <1>1 DEF GovernorInv, PlanHeeds
  <2>2. SUFFICES ASSUME ~ UNCHANGED vars
                 PROVE  Cardinality({age \in 1..History : hist'[age] = "bad"})
                          >= Stage2Cycles
    OBVIOUS
  <2>3. PICK recorded \in BOOLEAN : hist' = Remembered(Entry(recorded))
    BY <1>1, <2>2 DEF Next, NoPlanTick, Observe, Fill, NoFill, EndCycle
  <2>4. History \in Nat \ {0} /\ hist \in [1..History -> Entries]
    BY <2>1, Parameters, TypeParts
  <2>5. hist'[1] = Entry(recorded)
    BY <2>3, <2>4 DEF Remembered
  <2>6. Entry(recorded) = "bad"
    BY <1>1, <2>1, <2>5 DEF Entry
  <2> DEFINE before == BadCycles
             after == Cardinality({age \in 1..History : hist'[age] = "bad"})
  <2>7. before <= after
    BY <2>3, <2>4, <2>6, BadRemembered
  <2>8. before \in Nat /\ after \in Nat /\ Stage2Cycles \in Nat
    <3>1. IsFiniteSet(1..History)
      BY <2>4, FS_Interval
    <3>2. /\ IsFiniteSet({age \in 1..History : hist[age] = "bad"})
          /\ IsFiniteSet({age \in 1..History : hist'[age] = "bad"})
      BY <3>1, FS_Subset
    <3> QED BY <3>2, FS_CardinalityType, Parameters DEF BadCycles
  <2>9. before >= Stage2Cycles
    BY <1>1
  <2> HIDE DEF before, after
  <2>10. after >= Stage2Cycles
    BY <2>7, <2>8, <2>9
  <2> QED BY <2>10 DEF after
<1>2. GovernorInv /\ [Next]_vars =>
        [ BadCycles >= Stage2Cycles /\ pc = "trade" /\ hist'[1] # "none"
          => Cardinality({age \in 1..History : hist'[age] = "bad"}) >= Stage2Cycles ]_vars
  BY <1>1
<1> QED BY <1>2, GovernorSound, PTL DEF Spec, DefenceLatches
=============================================================================
