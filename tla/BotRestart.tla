----------------------------- MODULE BotRestart -----------------------------
(***************************************************************************)
(* The life of the process around the trading cycle (main.py) and the      *)
(* state file that outlives it (state_persistence.py).  A tick that        *)
(* returns is followed by a dump; one that raises is not.  The process may *)
(* die between any two steps and in the middle of a dump, which overwrites *)
(* the file in place.  A manual stop is a death too: it cancels the loop   *)
(* where it waits.                                                         *)
(***************************************************************************)
EXTENDS TradingCycle

CONSTANTS
  MaxRestarts,   \* bound on the restarts of a behaviour
  FreshStart     \* RESET_PAPER_STATE_ON_START in paper mode

ASSUME RestartAssumption ==
  MaxRestarts \in Nat /\ FreshStart \in BOOLEAN

VARIABLES
  process,    \* "ticking", "dumping" or "down"
  file,       \* the state file
  restarts,
  bought      \* history: the levels bought for the armed episode

rvars == <<vars, process, file, restarts, bought>>

NoFile   == [kind |-> "none"]
TornFile == [kind |-> "torn"]

\* Mutant of SavedEpisode: the levels that have been bought are not saved.
SavedWithoutLevels == [re EXCEPT !.timeoutDone = FALSE, !.missDone = FALSE, !.levels = {}]

\* dump_state(): what of the episode is saved; the flags of the timeout and
\* max-miss levels are not.
SavedEpisode == [re EXCEPT !.timeoutDone = FALSE, !.missDone = FALSE]

\* The history in lastFill and bought goes with it; no step here reads it.
Snapshot ==
  [kind |-> "whole", base |-> base, quote |-> quote, re |-> SavedEpisode,
   lastFill |-> lastFill, bought |-> bought]

\* load_state(): a file that is not there or cannot be read is no state at all.
Usable == file.kind = "whole" /\ ~FreshStart

\* Mutant of HoldingsRestored: the episode comes back, the portfolio does not.
HoldingsAnew == [base |-> StartBase, quote |-> StartQuote]

\* The portfolio in main(), resolve_start_balances() without a file.
HoldingsRestored ==
  IF Usable THEN [base |-> file.base, quote |-> file.quote]
  ELSE [base |-> StartBase, quote |-> StartQuote]

-----------------------------------------------------------------------------
StartProcess ==
  /\ Init
  /\ process = "ticking" /\ file = NoFile /\ restarts = 0 /\ bought = {}

\* The tick returns, and the loop dumps the state, also after the last tick.
Returned == pc \in {"idle", "decide", "close"} /\ pc' \in {"idle", "stopped"}

BuysLevel ==
  pc = "order" /\ order.reason \in Levels /\ base' > base

Work ==
  /\ process = "ticking"
  /\ InvalidPrice \/ BeginTick \/ Decide \/ Execute \/ CloseTick
  /\ process' = IF Returned THEN "dumping" ELSE "ticking"
  /\ bought' = IF ~re'.active \/ ~re.active THEN {}
               ELSE IF BuysLevel THEN bought \cup {order.reason}
               ELSE bought
  /\ UNCHANGED <<file, restarts>>

Dump ==
  /\ process = "dumping"
  /\ process' = "ticking" /\ file' = Snapshot
  /\ UNCHANGED <<vars, restarts, bought>>

\* A dump that fails as a whole is logged.
DumpFails ==
  /\ process = "dumping"
  /\ process' = "ticking"
  /\ UNCHANGED <<vars, file, restarts, bought>>

\* The process dies, in a dump with half of the file written.
Die ==
  /\ process # "down" /\ restarts < MaxRestarts
  /\ process' = "down"
  /\ file' \in {file} \cup {TornFile : written \in {process} \cap {"dumping"}}
  /\ UNCHANGED <<vars, restarts, bought>>

\* create_runtime(), apply_state() and the lines of main() after it: the state
\* machine and the streak start anew.  The index of the cycle
\* starts over; deadlines and the last fill keep their old index.  main() also takes
\* start_eth, whose share PreservedBase keeps, from the restored portfolio; here it
\* stays that of the first start, which no property of this module depends on.
Restart ==
  /\ process = "down"
  /\ process' = "ticking" /\ restarts' = restarts + 1
  /\ cycle' = 0 /\ pc' = "idle" /\ tick' = NoTick /\ order' = NoOrder
  /\ ctx' = BootContext /\ lossStreak' = 0
  /\ base' = HoldingsRestored.base /\ quote' = HoldingsRestored.quote
  /\ re' = IF Usable THEN file.re ELSE BlankReentry
  /\ lastFill' = IF Usable THEN file.lastFill ELSE NoFill
  /\ bought' = IF Usable THEN file.bought ELSE {}
  /\ UNCHANGED file

ProcessOver ==
  process = "ticking" /\ LoopOver /\ UNCHANGED <<process, file, restarts, bought>>

ProcessNext == Work \/ Dump \/ DumpFails \/ Die \/ Restart \/ ProcessOver

ProcessSpec == StartProcess /\ [][ProcessNext]_rvars

-----------------------------------------------------------------------------
(* Properties.  OnlyReentryTrades and BudgetFunded of TradingCycle are       *)
(* checked across restarts as well.                                         *)

\* The type of every variable; a file that is whole is one that can be used.
ProcessTypeOK ==
  /\ TypeOK
  /\ process \in {"ticking", "dumping", "down"} /\ restarts \in 0..MaxRestarts
  /\ bought \subseteq Levels
  /\ \/ file \in {NoFile, TornFile}
     \/ /\ file.base \in Nat /\ file.quote \in Nat
        /\ file.re \in Episodes /\ file.lastFill \in Fills

\* Across restarts, a level of an episode is bought a second time only if it is
\* the timeout or the max-miss level: their flags are not in the file, the list
\* of the others is.
LevelTwiceOnlyAfterRestart ==
  [][ process = "ticking" /\ BuysLevel /\ order.reason \in bought
      => restarts > 0 /\ order.reason \in {"reentry_timeout", "reentry_max_miss"} ]_rvars
==============================================================================
