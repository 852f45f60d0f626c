--------------------------- MODULE ReentryContract ---------------------------
(***************************************************************************)
(* What the bot promises about buying back, apart from how a tick is run.  *)
(* A sell may arm an episode, and goes on arming it anew until the sell is *)
(* over.  From then on the holdings change by buys of the episode alone,   *)
(* every one of them is charged to its budget, and the episode ends when   *)
(* the budget is spent and in no other way.                                *)
(***************************************************************************)
EXTENDS Integers

CONSTANTS
  MinOrder,    \* the smallest order
  ExcessPct    \* a buy is at most this percentage of the rest of the budget

VARIABLES
  phase,    \* "free", "arming" while the sell is being filled, or "armed"
  budget,   \* of the episode, 0 while free
  spent,    \* of the budget, 0 while free
  held      \* the holdings of the base currency

cvars == <<phase, budget, spent, held>>

ContractInit ==
  /\ phase = "free" /\ budget = 0 /\ spent = 0
  /\ held \in Nat

\* Outside of an episode the holdings change freely.
Trade ==
  /\ phase = "free" /\ phase' = "free"
  /\ held' \in Nat
  /\ UNCHANGED <<budget, spent>>

\* A sell leaves so little that an episode starts.
Arm ==
  /\ phase \in {"free", "arming"} /\ phase' \in {"arming", "armed"}
  /\ held' \in Nat /\ held' < held
  /\ budget' \in Nat \ {0} /\ spent' = 0

\* The sell is over.
Settle ==
  /\ phase = "arming" /\ phase' = "armed"
  /\ UNCHANGED <<budget, spent, held>>

\* All but 2% of the budget, and no less than one smallest order.
UsedUp(amount) == 100 * amount >= 98 * budget /\ amount >= MinOrder

\* A buy of the episode, which ends it when the budget is used up.
Spend ==
  LET bought == held' - held
  IN /\ phase = "armed"
     /\ held' \in Nat /\ bought > 0
     /\ 100 * bought <= ExcessPct * (budget - spent)
     /\ IF UsedUp(spent + bought)
        THEN phase' = "free" /\ budget' = 0 /\ spent' = 0
        ELSE phase' = "armed" /\ budget' = budget /\ spent' = spent + bought

ContractNext == Trade \/ Arm \/ Settle \/ Spend

ContractSpec == ContractInit /\ [][ContractNext]_cvars
=============================================================================
