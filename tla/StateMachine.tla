---------------------------- MODULE StateMachine ----------------------------
(***************************************************************************)
(* The trading state machine of the bot (state_machine.py): which side may *)
(* trade, when a series of losses pauses trading and when the pause ends.  *)
(* The methods are operators from a context record to a context record, so *)
(* that the trading cycle composes them in the order the tick calls them.  *)
(* Cycle counts stand for minutes: the code converts them once, with the   *)
(* length of a cycle, and compares cycle counts only.                      *)
(***************************************************************************)
EXTENDS Integers

CONSTANTS
  LossStreakLimit,     \* STATE_MACHINE_LOSS_STREAK_LIMIT
  CooldownCycles,      \* STATE_MACHINE_COOLDOWN_MINUTES in cycles, 0 = off
  MaxCooldownCycles    \* STATE_MACHINE_MAX_COOLDOWN_MINUTES in cycles, 0 = off

ASSUME StateMachineAssumption ==
  /\ LossStreakLimit \in Nat
  /\ CooldownCycles \in Nat
  /\ MaxCooldownCycles \in Nat

States == {"IDLE", "ACCUMULATING", "DISTRIBUTING", "WAIT_REENTRY", "COOLDOWN"}

\* The reasons a transition records.  sell_setup, buy_fill and sell_fill carry
\* the reason of the trade in the code; the machine compares a reason only with
\* the one of the same state, so the trade's own reason is kept beside it.
TransitionKinds ==
  {"boot", "reentry_armed", "inventory_detected", "inventory_depleted",
   "reentry_inactive", "distribution_settled", "distribution_complete",
   "max_cooldown_timeout", "cooldown_disabled", "cooldown_elapsed",
   "loss_streak_limit", "sell_setup", "buy_fill", "sell_fill"}

NoUntil == -1   \* cooldown_until_cycle is None

\* StateMachineContext, as it is created at start.  The fields that are only
\* logged (last_transition, previous_state, the audit of the last cooldown) are
\* left out.
BootContext ==
  [state |-> "IDLE", entered |-> 0, kind |-> "boot", trade |-> "",
   until |-> NoUntil]

-----------------------------------------------------------------------------
\* transition(): entering the same state for the same reason changes nothing,
\* not even entered_cycle; leaving for any other state drops the deadline.
Transition(ctx, new, c, kind, trade) ==
  IF ctx.state = new /\ ctx.kind = kind /\ ctx.trade = trade
  THEN ctx
  ELSE [state   |-> new,
        entered |-> c,
        kind    |-> kind,
        trade   |-> trade,
        until   |-> IF new = "COOLDOWN" THEN ctx.until ELSE NoUntil]

\* time_in_state_cycles(): clamped at zero, because a restart resets the index.
TimeInState(ctx, c) == IF c >= ctx.entered THEN c - ctx.entered ELSE 0

\* _resting_state(): where the machine rests given the book.
Resting(reentryActive, hasInventory) ==
  IF reentryActive THEN "WAIT_REENTRY"
  ELSE IF hasInventory THEN "ACCUMULATING"
  ELSE "IDLE"

\* The set of deadlines _cooldown_deadline_cycle takes the minimum of.
CooldownDeadlines(ctx) ==
  {d \in {ctx.until} : d # NoUntil}
    \cup {d \in {ctx.entered + MaxCooldownCycles} :
            ctx.state = "COOLDOWN" /\ MaxCooldownCycles > 0}

\* cooldown_remaining_cycles() <= 0: no deadline is left, or one has passed.
NoCooldownRemaining(ctx, c) ==
  \/ CooldownDeadlines(ctx) = {}
  \/ \E d \in CooldownDeadlines(ctx) : d <= c

\* Mutant of CooldownExit: only the configured time counts, and one cycle late.
CooldownExitLate(ctx, c) ==
  IF CooldownCycles <= 0 THEN "cooldown_disabled"
  ELSE IF TimeInState(ctx, c) > CooldownCycles THEN "cooldown_elapsed"
  ELSE ""

\* The reason sync_cycle leaves COOLDOWN for, "" when it stays.
CooldownExit(ctx, c) ==
  IF MaxCooldownCycles > 0 /\ TimeInState(ctx, c) >= MaxCooldownCycles
  THEN "max_cooldown_timeout"
  ELSE IF CooldownCycles <= 0 THEN "cooldown_disabled"
  ELSE IF TimeInState(ctx, c) >= CooldownCycles \/ NoCooldownRemaining(ctx, c)
  THEN "cooldown_elapsed"
  ELSE ""

\* The reason sync_cycle records when it moves a state that is not COOLDOWN to
\* the state the book calls for.
SettleKind(ctx, resting) ==
  IF ctx.state = "WAIT_REENTRY" THEN "reentry_inactive"
  ELSE IF ctx.state = "DISTRIBUTING" THEN "distribution_settled"
  ELSE IF resting = "WAIT_REENTRY" THEN "reentry_armed"
  ELSE IF ctx.state = "IDLE" THEN "inventory_detected"
  ELSE "inventory_depleted"

\* Mutant of Settles: a state machine that was left distributing stays so.
SettlesUnlessSelling(ctx, resting) ==
  ctx.state \notin {resting, "DISTRIBUTING"}

\* A state that is not COOLDOWN gives way to the one the book calls for.
Settles(ctx, resting) == ctx.state # resting

\* sync_cycle(): called at the start and again at the end of a tick.
SyncCycle(ctx, c, reentryActive, hasInventory) ==
  LET resting == Resting(reentryActive, hasInventory)
  IN IF ctx.state = "COOLDOWN"
     THEN IF CooldownExit(ctx, c) = "" THEN ctx
          ELSE Transition(ctx, resting, c, CooldownExit(ctx, c), "")
     ELSE IF Settles(ctx, resting)
     THEN Transition(ctx, resting, c, SettleKind(ctx, resting), "")
     ELSE ctx

\* Mutant of PauseDue: one loss more than the limit.
PauseDueLate(lossStreak) ==
  lossStreak > LossStreakLimit /\ CooldownCycles > 0

\* The losses that maybe_enter_cooldown() asks for, unless it is switched off.
PauseDue(lossStreak) ==
  lossStreak >= LossStreakLimit /\ CooldownCycles > 0

\* maybe_enter_cooldown(): a second entry for the same reason leaves
\* entered_cycle where it was but moves the deadline.
MaybeEnterCooldown(ctx, c, lossStreak) ==
  IF PauseDue(lossStreak)
  THEN [Transition(ctx, "COOLDOWN", c, "loss_streak_limit", "")
          EXCEPT !.until = c + CooldownCycles]
  ELSE ctx

\* prepare_distribution()
PrepareDistribution(ctx, c, trade) ==
  IF ctx.state \in {"COOLDOWN", "WAIT_REENTRY"} THEN ctx
  ELSE Transition(ctx, "DISTRIBUTING", c, "sell_setup", trade)

\* handle_buy_fill()
HandleBuyFill(ctx, c, trade) ==
  Transition(ctx, "ACCUMULATING", c, "buy_fill", trade)

\* handle_sell_fill()
HandleSellFill(ctx, c, trade, reentryActive, hasInventory) ==
  Transition(ctx, Resting(reentryActive, hasInventory), c, "sell_fill", trade)

\* Mutant of AllowSell: sells while waiting for a reentry.
AllowSellWaiting(ctx) == ctx.state # "COOLDOWN"

\* allow_buy(), allow_sell(), requires_reentry_only(), in_cooldown()
AllowBuy(ctx)  == ctx.state \in {"IDLE", "WAIT_REENTRY"}
AllowSell(ctx) == ctx.state \in {"IDLE", "ACCUMULATING", "DISTRIBUTING"}
RequiresReentryOnly(ctx) == ctx.state = "WAIT_REENTRY"
InCooldown(ctx) == ctx.state = "COOLDOWN"
=============================================================================
