-------------------------- MODULE BotRestartProofs --------------------------
(***************************************************************************)
(* Theorems about the process and its state file: what a run of ticks      *)
(* keeps, a restart keeps too, because of what is in the file.  Every      *)
(* theorem is for all configurations, with and without FreshStart, and for *)
(* a death between any two steps.                                          *)
(***************************************************************************)
EXTENDS BotRestart, EpisodeProofs

Whole == file.kind = "whole"

\* What the file holds is a state that the bot could be in: the rest of a saved
\* budget is in the saved portfolio, and what was bought for the saved episode
\* is in its list of levels.
FileSound ==
  Whole => /\ file.re.active => Remaining(file.re) <= file.quote
           /\ file.bought \subseteq file.re.levels

\* What was bought for the episode is in its list; while a sell still arms the
\* episode, nothing was.
BoughtListed ==
  /\ bought \subseteq re.levels
  /\ pc = "chunk" /\ re.active => bought = {}

\* Before the first restart, the flags of an episode agree with its list.
FlagsOfFirstLife == restarts = 0 => FlagsAgree

\* A process that is down may come up again, within the bound.
DownCounted == process = "down" => restarts < MaxRestarts

\* The inductive invariant of the process.
ProcessInv ==
  /\ ProcessTypeOK /\ SyncedState /\ OnlyReentryTrades /\ BudgetFunded
  /\ OrderSided /\ LevelOrdered
  /\ FileSound /\ BoughtListed /\ FlagsOfFirstLife /\ DownCounted

\* The part of it that the trading cycle keeps by itself, file or not.
CycleInv ==
  /\ TypeOK /\ SyncedState /\ OnlyReentryTrades /\ BudgetFunded
  /\ OrderSided /\ LevelOrdered

-----------------------------------------------------------------------------
\* A step of a tick is a step of the trading cycle, and leaves the file alone.
LEMMA WorkSteps ==
  Work => Next /\ process = "ticking" /\ UNCHANGED <<file, restarts>>
BY DEF Work, Next

\* The trading cycle keeps its part of the invariant.
LEMMA CycleStep == CycleInv /\ [Next]_vars => CycleInv'
BY TypeStep, SyncedStep, OnlyReentryStep, FundedStep, OrderStep DEF CycleInv

\* What is saved of an episode is an episode, with the same list and rest.
LEMMA SavedType ==
  ASSUME re \in Episodes
  PROVE  /\ SavedEpisode \in Episodes
         /\ SavedEpisode.active <=> re.active
         /\ SavedEpisode.levels = re.levels
         /\ Remaining(SavedEpisode) = Remaining(re)
BY DEF SavedEpisode, Episodes, Remaining

\* The process starts without a file, in the initial state of the cycle.
LEMMA ProcessInit == StartProcess => ProcessInv
<1> SUFFICES ASSUME StartProcess PROVE ProcessInv
  OBVIOUS
<1>1. Init /\ process = "ticking" /\ file = NoFile /\ restarts = 0 /\ bought = {}
  BY DEF StartProcess
<1>2. CycleInv
  BY <1>1, TypeInit, SyncedInit, OnlyReentryInit, FundedInit, OrderInit
  DEF CycleInv
<1>3. 0 \in 0..MaxRestarts
  BY RestartAssumption
<1>4. ~Whole
  BY <1>1 DEF Whole, NoFile
<1>5. FlagsAgree
  BY <1>1, OrderInit
<1> QED BY <1>1, <1>2, <1>3, <1>4, <1>5
        DEF ProcessInv, CycleInv, ProcessTypeOK, FileSound, BoughtListed,
            FlagsOfFirstLife, DownCounted

\* How a fill changes the list of the levels that have been bought.
LEMMA ListGrows ==
  ASSUME TypeOK, OrderSided, [Next]_vars, ~ChunkFilled
  PROVE  /\ re.levels \subseteq re'.levels
         /\ BuysLevel => order.reason \in re'.levels
<1>1. re \in Episodes
  BY DEF TypeOK
<1>2. CASE BuyFilled
  <2>1. re' = RecordBuy(order.reason, BuySize)
    BY <1>2 DEF BuyFilled
  <2>2. CASE order.reason \in Levels
    BY <1>1, <2>1, <2>2 DEF RecordBuy, RecordReentryBuy, Episodes
  <2>3. CASE order.reason \notin Levels
    BY <1>1, <2>1, <2>3 DEF RecordBuy, RecordPartialReset, Episodes, BuysLevel
  <2> QED BY <2>2, <2>3
<1>3. CASE UNCHANGED <<re, base>>
  <2>1. ~BuysLevel
    BY <1>3 DEF BuysLevel, TypeOK
  <2> QED BY <1>3, <2>1
<1> QED BY <1>2, <1>3, FillsAlone

\* The list of what was bought follows the episode.
LEMMA BoughtStep ==
  CycleInv /\ BoughtListed /\ Work => BoughtListed'
<1> SUFFICES ASSUME CycleInv, BoughtListed, Work PROVE BoughtListed'
  OBVIOUS
<1>1. Next /\ TypeOK /\ OrderSided /\ OnlyReentryTrades
  BY WorkSteps DEF CycleInv
<1>2. bought' = IF ~re'.active \/ ~re.active THEN {}
                ELSE IF BuysLevel THEN bought \cup {order.reason} ELSE bought
  BY DEF Work
<1>3. CASE ChunkFilled
  <2>1. pc = "chunk" /\ ~BuysLevel
    BY <1>3 DEF ChunkFilled, BuysLevel
  <2>2. bought' = {}
    BY <1>2, <2>1 DEF BoughtListed
  <2> QED BY <2>2 DEF BoughtListed
<1>4. CASE ~ChunkFilled
  <2>1. bought' \subseteq re'.levels
    BY <1>1, <1>2, <1>4, ListGrows DEF BoughtListed
  <2>2. ASSUME pc' = "chunk", re'.active PROVE bought' = {}
    <3>1. CASE UNCHANGED vars
      <4>1. bought' = {} \/ bought' = bought
        <5>1. ~BuysLevel
          BY <1>1, <3>1 DEF vars, BuysLevel, TypeOK
        <5> QED BY <1>2, <5>1
      <4> QED BY <2>2, <3>1, <4>1 DEF vars, BoughtListed
    <3>2. ASSUME NEW premium \in 0..Premium, SellPlaced(premium)
          PROVE  bought' = {}
      BY <1>1, <1>2, <3>2, SellFindsNoEpisode
    <3> QED BY <1>1, <1>4, <2>2, <3>1, <3>2, ChunkSteps
  <2> QED BY <2>1, <2>2 DEF BoughtListed
<1> QED BY <1>3, <1>4

\* A step of a tick keeps the invariant.
LEMMA WorkStep == ProcessInv /\ Work => ProcessInv'
<1> SUFFICES ASSUME ProcessInv, Work PROVE ProcessInv'
  OBVIOUS
<1>1. Next /\ UNCHANGED <<file, restarts>> /\ CycleInv
  BY WorkSteps DEF ProcessInv, CycleInv, ProcessTypeOK
<1>2. CycleInv' /\ BoughtListed'
  BY <1>1, CycleStep, BoughtStep DEF ProcessInv
<1>3. process' \in {"ticking", "dumping"} /\ bought' \subseteq Levels
  BY DEF Work, BuysLevel, ProcessInv, ProcessTypeOK
<1>4. FlagsOfFirstLife'
  BY <1>1, FlagsStep DEF ProcessInv, FlagsOfFirstLife, CycleInv
<1>5. FileSound'
  BY <1>1 DEF ProcessInv, FileSound, Whole
<1>6. ProcessTypeOK'
  BY <1>1, <1>2, <1>3 DEF ProcessInv, ProcessTypeOK, CycleInv
<1> QED BY <1>2, <1>3, <1>4, <1>5, <1>6 DEF ProcessInv, CycleInv, DownCounted

\* What follows for the cycle when none of its variables changes.
LEMMA SameCycle ==
  ASSUME ProcessInv, UNCHANGED <<vars, restarts, bought>>,
         process' \in {"ticking", "dumping", "down"},
         \/ file' \in {file, TornFile}
         \/ /\ file'.base \in Nat /\ file'.quote \in Nat
            /\ file'.re \in Episodes /\ file'.lastFill \in Fills
  PROVE  /\ ProcessTypeOK' /\ SyncedState' /\ OnlyReentryTrades' /\ BudgetFunded'
         /\ OrderSided' /\ LevelOrdered' /\ BoughtListed' /\ FlagsOfFirstLife'
<1>1. CycleInv'
  BY CycleStep DEF ProcessInv, ProcessTypeOK, CycleInv
<1>2. UNCHANGED <<re, pc, bought, restarts>>
  BY DEF vars
<1>3. ProcessTypeOK'
  BY <1>1, <1>2 DEF CycleInv, ProcessInv, ProcessTypeOK
<1> QED BY <1>1, <1>2, <1>3
        DEF CycleInv, ProcessInv, BoughtListed, FlagsOfFirstLife, FlagsAgree

\* The restarts are counted.
LEMMA RestartCount == ProcessInv /\ Restart => restarts' # 0
BY RestartAssumption DEF Restart, ProcessInv, ProcessTypeOK

\* What a restart comes up with has the right types and is in no tick.
LEMMA RestartTypes ==
  ASSUME ProcessInv, Restart,
         base' \in Nat, quote' \in Nat, re' \in Episodes, lastFill' \in Fills,
         bought' \subseteq Levels,
         BudgetFunded', BoughtListed', FlagsOfFirstLife', FileSound'
  PROVE  ProcessInv'
<1>1. /\ cycle' = 0 /\ pc' = "idle" /\ tick' = NoTick /\ order' = NoOrder
      /\ ctx' = BootContext /\ lossStreak' = 0
      /\ process' = "ticking" /\ restarts' = restarts + 1 /\ file' = file
  BY DEF Restart
<1>2. TypeOK'
  BY <1>1, NothingType
  DEF TypeOK, Steps, BootContext, Contexts, States, TransitionKinds
<1>3. restarts' \in 0..MaxRestarts
  <2>1. restarts < MaxRestarts /\ restarts \in 0..MaxRestarts
    BY DEF Restart, ProcessInv, DownCounted, ProcessTypeOK
  <2> QED BY <1>1, <2>1, RestartAssumption
<1>4. ProcessTypeOK'
  BY <1>1, <1>2, <1>3 DEF ProcessInv, ProcessTypeOK
<1>5. SyncedState' /\ OnlyReentryTrades' /\ OrderSided' /\ LevelOrdered'
  BY <1>1 DEF SyncedState, OnlyReentryTrades, OrderSided, LevelOrdered
<1> QED BY <1>1, <1>4, <1>5 DEF ProcessInv, DownCounted

\* A restart comes up in a sound state, from the file or without it.
LEMMA RestartStep == ProcessInv /\ Restart => ProcessInv'
<1> SUFFICES ASSUME ProcessInv, Restart PROVE ProcessInv'
  OBVIOUS
<1>1. /\ cycle' = 0 /\ pc' = "idle" /\ tick' = NoTick /\ order' = NoOrder
      /\ ctx' = BootContext /\ lossStreak' = 0
  BY DEF Restart
<1>2. CASE Usable
  <2>1. /\ base' = file.base /\ quote' = file.quote /\ re' = file.re
        /\ lastFill' = file.lastFill /\ bought' = file.bought
    BY <1>2 DEF Restart, HoldingsRestored
  <2>2. Whole
    BY <1>2 DEF Usable, Whole
  <2>3. /\ file.base \in Nat /\ file.quote \in Nat /\ file.re \in Episodes
        /\ file.lastFill \in Fills
    BY <2>2 DEF ProcessInv, ProcessTypeOK, Whole, NoFile, TornFile
  <2>4. BudgetFunded' /\ BoughtListed' /\ FlagsOfFirstLife' /\ FileSound'
    BY <1>1, <2>1, <2>2, <2>3, RestartCount
    DEF ProcessInv, FileSound, Whole, BudgetFunded, BoughtListed,
        FlagsOfFirstLife, Restart, Remaining
  <2>5. bought' \subseteq Levels
    BY <2>1, <2>2, <2>3 DEF ProcessInv, FileSound, Episodes
  <2> QED BY <1>1, <2>1, <2>3, <2>4, <2>5, RestartTypes
<1>3. CASE ~Usable
  <2>1. /\ base' = StartBase /\ quote' = StartQuote /\ re' = BlankReentry
        /\ lastFill' = NoFill /\ bought' = {}
    BY <1>3 DEF Restart, HoldingsRestored
  <2>2. /\ base' \in Nat /\ quote' \in Nat /\ re' \in Episodes
        /\ lastFill' \in Fills
    BY <2>1, CycleAssumption
    DEF BlankReentry, Episodes, NoPrice, NoTimeout, NoFill, Fills
  <2>3. BudgetFunded' /\ BoughtListed' /\ FlagsOfFirstLife' /\ FileSound'
    BY <1>1, <2>1
    DEF ProcessInv, FileSound, Whole, BudgetFunded, BoughtListed,
        FlagsOfFirstLife, FlagsAgree, Restart, Remaining, BlankReentry
  <2> QED BY <1>1, <2>1, <2>2, <2>3, RestartTypes
<1> QED BY <1>2, <1>3

\* A dump saves the state that the cycle is in.
LEMMA DumpStep == ProcessInv /\ Dump => ProcessInv'
<1> SUFFICES ASSUME ProcessInv, Dump PROVE ProcessInv'
  OBVIOUS
<1>1. /\ process' = "ticking" /\ file' = Snapshot
      /\ UNCHANGED <<cycle, pc, tick, order, ctx, re, base, quote, lossStreak,
                     lastFill, restarts, bought>>
  BY DEF Dump, vars
<1>2. /\ re \in Episodes /\ base \in Nat /\ quote \in Nat /\ lastFill \in Fills
      /\ bought \subseteq re.levels /\ (re.active => Remaining(re) <= quote)
  BY DEF ProcessInv, ProcessTypeOK, TypeOK, BoughtListed, BudgetFunded
<1>3. /\ file'.base = base /\ file'.quote = quote /\ file'.re = SavedEpisode
      /\ file'.lastFill = lastFill /\ file'.bought = bought
  BY <1>1 DEF Snapshot
<1>4. FileSound'
  BY <1>2, <1>3, SavedType DEF FileSound
<1>5. /\ file'.base \in Nat /\ file'.quote \in Nat /\ file'.re \in Episodes
      /\ file'.lastFill \in Fills
  BY <1>2, <1>3, SavedType
<1>6. UNCHANGED <<vars, restarts, bought>>
  BY <1>1 DEF vars
<1> QED BY <1>1, <1>4, <1>5, <1>6, SameCycle DEF ProcessInv, DownCounted

\* A step of the process that leaves cycle and file alone, and a death, which
\* may tear the file.
LEMMA DeathStep ==
  ProcessInv /\ (DumpFails \/ Die \/ ProcessOver \/ UNCHANGED rvars)
    => ProcessInv'
<1> SUFFICES ASSUME ProcessInv, DumpFails \/ Die \/ ProcessOver \/ UNCHANGED rvars
             PROVE  ProcessInv'
  OBVIOUS
<1>1. UNCHANGED <<vars, restarts, bought>>
  BY DEF DumpFails, Die, ProcessOver, LoopOver, rvars
<1>2. file' \in {file, TornFile} /\ process' \in {process, "ticking", "down"}
  BY DEF DumpFails, Die, ProcessOver, rvars
<1>3. FileSound'
  BY <1>2 DEF ProcessInv, FileSound, Whole, TornFile
<1>4. DownCounted'
  BY <1>1 DEF DumpFails, Die, ProcessOver, rvars, ProcessInv, DownCounted
<1> QED BY <1>1, <1>2, <1>3, <1>4, SameCycle DEF ProcessInv, ProcessTypeOK

\* Every step of the process keeps the invariant.
LEMMA ProcessStep == ProcessInv /\ [ProcessNext]_rvars => ProcessInv'
BY WorkStep, RestartStep, DumpStep, DeathStep DEF ProcessNext

\* The invariant holds throughout the life of the bot, over all restarts.
THEOREM ProcessSound == ProcessSpec => []ProcessInv
BY ProcessInit, ProcessStep, PTL DEF ProcessSpec

\* ProcessTypeOK: the type of every variable of the process and of its file.
THEOREM ProcessTyped == ProcessSpec => []ProcessTypeOK
BY ProcessSound, PTL DEF ProcessInv

\* OnlyReentryTrades across restarts: the state machine starts anew, and the
\* first synchronisation brings it to the episode that the file holds.
THEOREM OnlyReentryOverRestarts == ProcessSpec => []OnlyReentryTrades
BY ProcessSound, PTL DEF ProcessInv

\* BudgetFunded across restarts: the file holds the portfolio and the episode of
\* the same moment.
THEOREM FundedOverRestarts == ProcessSpec => []BudgetFunded
BY ProcessSound, PTL DEF ProcessInv

\* LevelTwiceOnlyAfterRestart: the list of levels outlives a restart; only the
\* flags of the timeout and max-miss levels do not.
THEOREM TwiceOnlyAfterRestart == ProcessSpec => LevelTwiceOnlyAfterRestart
<1>1. ProcessInv =>
        (process = "ticking" /\ BuysLevel /\ order.reason \in bought
          => restarts > 0
             /\ order.reason \in {"reentry_timeout", "reentry_max_miss"})
  <2> SUFFICES ASSUME ProcessInv, BuysLevel, order.reason \in bought
               PROVE  restarts > 0
                 /\ order.reason \in {"reentry_timeout", "reentry_max_miss"}
    OBVIOUS
  <2>1. LevelOpen(re, order.reason) /\ order.reason \in re.levels
    BY DEF BuysLevel, ProcessInv, LevelOrdered, BoughtListed
  <2>2. ~FlagsAgree
    BY <2>1 DEF LevelOpen, FlagsAgree
  <2>3. restarts # 0 /\ restarts \in 0..MaxRestarts
    BY <2>2 DEF ProcessInv, FlagsOfFirstLife, ProcessTypeOK
  <2> QED BY <2>1, <2>3, RestartAssumption DEF LevelOpen
<1>2. ProcessInv /\ [ProcessNext]_rvars =>
        [process = "ticking" /\ BuysLevel /\ order.reason \in bought
          => restarts > 0
             /\ order.reason \in {"reentry_timeout", "reentry_max_miss"}]_rvars
  BY <1>1
<1> QED BY <1>2, ProcessSound, PTL DEF ProcessSpec, LevelTwiceOnlyAfterRestart
=============================================================================
