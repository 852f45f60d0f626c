---------------------------- MODULE OrderRouting ----------------------------
(***************************************************************************)
(* An order from the decision to its fill (execution_router.py and the     *)
(* modules it asks, and the part of the tick around it): size guard,       *)
(* routing, the private transaction of live mode, checks and fills.        *)
(*                                                                         *)
(* The private executor sends through RpcFailover.  Nodes and chain are    *)
(* external: a node keeps the transactions it has accepted, may pass them  *)
(* on, and its answer to a send may be lost.                               *)
(***************************************************************************)
EXTENDS Integers, RpcFailover, SequencesExt, FiniteSetsExt, TLC

CONSTANTS
  PolicyLayers,   \* each a sequence of partial policies, the strongest last
  Risks,          \* what the guards measure of an order, see Risk
  Sizes,          \* sizes of orders
  MaxTrade, MinNotional,
  GasShareLimit,  \* MAX_GAS_TO_PROFIT_RATIO, in percent
  PrivateEnabled, \* ENABLE_PRIVATE_TX
  CowEnabled, CowPair, CowMin,
  MaxOrders       \* bound on the orders of a behaviour

ASSUME RoutingAssumption ==
  /\ Sizes \subseteq Nat \ {0} /\ MaxTrade \in Nat \ {0}
  /\ MinNotional \in Nat /\ GasShareLimit \in Nat /\ CowMin \in Nat
  /\ {PrivateEnabled, CowEnabled, CowPair} \subseteq BOOLEAN
  /\ MaxOrders \in Nat

VARIABLES
  pc,         \* where the order is
  paper,      \* BOT_MODE is a paper mode
  policy,     \* the resolved policy
  order,      \* side, size and chunk_sizes
  risk,       \* the measures of the order
  payloads,   \* what there is to send, by signal
  mode,       \* execution_mode
  approved,   \* size that the router has let through
  filled,     \* sum of the fills of the order
  pending,    \* transactions that a node has accepted
  mined,      \* the transactions of the account on the chain, by nonce
  unanswered  \* signals with a send whose answer was lost

clientVars == <<current, attempt>>
chainVars  == <<pending, mined, unanswered>>
orderVars  == <<order, risk, mode, approved, filled>>
vars == <<pc, paper, policy, payloads, orderVars, chainVars, clientVars>>

Modes    == {"private_tx", "guarded_public", "cow_intent"}
Nodes    == DOMAIN Endpoints
Nonces   == 1..(MaxOrders + 1)
NoNonce  == 0

\* raw_tx_hex, or tx_params with a nonce; tx_params without one; neither.
NoPayload == MaxOrders + 2
Payloads  == Nonces \cup {NoNonce, NoPayload}

Risk == [quoteDev : Nat, twapDev : Nat, slippage : Nat, impact : Nat,
         score : Nat, sandwich : Nat, gas : Nat, gasShare : Nat, exempt : BOOLEAN]

NoOrder == [side |-> "none", size |-> 0, chunks |-> <<>>]
NoRisk  == [quoteDev |-> 0, twapDev |-> 0, slippage |-> 0, impact |-> 0, score |-> 0,
            sandwich |-> 0, gas |-> 0, gasShare |-> 0, exempt |-> FALSE]

signal  == Len(payloads)
payload == payloads[signal]

-----------------------------------------------------------------------------
(* PolicyEngine *)

\* resolve(): base, profile, and the layers of the policy file, later ones over
\* earlier ones.
Merged(layers) == FoldLeft(LAMBDA below, above : above @@ below, <<>>, layers)
Resolve(layers) ==
  LET merged == Merged(layers) IN
  [merged EXCEPT !.cowSupported = merged.allowCow /\ (CowPair \/ @)]

\* ExecutionPolicy: what resolve() makes of the merged layers.  The numbers of
\* the policy file are taken as they are.
Policies ==
  [allowPrivate : BOOLEAN, allowPublic : BOOLEAN, allowCow : BOOLEAN,
   cowSupported : BOOLEAN, cowMin : Int, preferred : STRING,
   publicMaxRisk : Int, blockRisk : Int, maxQuoteDev : Int, maxTwapDev : Int,
   maxImpact : Int, maxSlippage : Int, maxGas : Int,
   slicing : BOOLEAN, maxSwap : Int, sliceMax : Int]

ASSUME PolicyAssumption ==
  /\ Risks \subseteq Risk
  /\ \A layers \in PolicyLayers : Resolve(layers) \in Policies

-----------------------------------------------------------------------------
(* What the guards say.  r is the Risk of the order, p the policy. *)

QuoteValid(r, p) == r.quoteDev <= p.maxQuoteDev /\ r.twapDev <= p.maxTwapDev

SlippageValid(r, p) ==
  r.impact <= p.maxImpact /\ r.slippage <= Max({2, p.maxSlippage})

PublicLimit(p) == Min({p.publicMaxRisk, 40})
SkipLimit(p) ==
  LET limit == Min({p.blockRisk, 70}) IN IF limit < PublicLimit(p) THEN 70 ELSE limit

\* Mutant of PublicAllowed: a sandwich is not thought of.
PublicByScore(r, p) == r.score < PublicLimit(p) /\ r.gas <= p.maxGas

PublicAllowed(r, p) ==
  r.score < PublicLimit(p) /\ r.sandwich <= 55 /\ r.gas <= p.maxGas

Recommended(r, p) ==
  IF r.score > SkipLimit(p) THEN "skip"
  ELSE IF r.score >= PublicLimit(p) \/ r.gas > p.maxGas THEN "private_tx"
  ELSE "guarded_public"

\* A trade that must happen is let off in paper mode, but not from a spike.
GasRefused(r, p) ==
  \/ r.gas > p.maxGas
  \/ ~(paper /\ r.exempt) /\ (r.gasShare >= 100 \/ r.gasShare > GasShareLimit)

\* is_available(): in live mode there must be a url, too.
PrivateAvailable == PrivateEnabled /\ (paper \/ Endpoints # <<>>)

CowEligible(size, p) ==
  /\ CowEnabled /\ CowPair /\ p.allowCow /\ p.cowSupported
  /\ size >= Max({CowMin, p.cowMin})

Usable(r, p, size) ==
  {m \in Modes :
     CASE m = "private_tx"     -> p.allowPrivate /\ PrivateAvailable
       [] m = "guarded_public" -> p.allowPublic /\ PublicAllowed(r, p)
       [] m = "cow_intent"     -> CowEligible(size, p)}

FirstUsable(usable) ==
  IF "private_tx" \in usable THEN "private_tx"
  ELSE IF "guarded_public" \in usable THEN "guarded_public"
  ELSE IF "cow_intent" \in usable THEN "cow_intent"
  ELSE "skip"

\* The preferred mode if it can be used, else the first one that can.
ResolvedMode(r, p, size) ==
  LET preferred == IF p.preferred # "" THEN p.preferred ELSE Recommended(r, p)
  IN  IF preferred = "skip" THEN "skip"
      ELSE IF preferred \in Usable(r, p, size) THEN preferred
      ELSE FirstUsable(Usable(r, p, size))

PublicGuard(r, p) ==
  r.score < p.publicMaxRisk /\ r.slippage <= p.maxSlippage /\ r.impact <= p.maxImpact

CeilDiv(a, b) == (a + b - 1) \div b

\* OrderSlicer: the slices only count; nothing executes them.
SliceCount(size, p) ==
  IF ~p.slicing \/ size <= p.maxSwap THEN 1
  ELSE Min({Max({CeilDiv(size, Max({p.maxSwap, 1})), 2}), Max({p.sliceMax, 1})})

\* Mutant of Multiplier: the factors of private and public are swapped.
MultiplierSwapped(m) ==
  CASE m = "private_tx" -> 105 [] m = "cow_intent" -> 60 [] OTHER -> 75

Multiplier(m) ==
  CASE m = "private_tx" -> 75 [] m = "cow_intent" -> 60 [] OTHER -> 105

\* TradeSimulator: the slippage it expects, as a fraction of 10^8.
Realized(m, r, p, size) ==
  r.slippage * Multiplier(m) * Max({100 - 8 * (SliceCount(size, p) - 1), 72})
    * (IF m = "guarded_public" THEN 10000 + 35 * r.sandwich ELSE 10000)

SimulationSucceeds(m, r, p, size) ==
  /\ m = "guarded_public" => PublicAllowed(r, p) /\ r.gas <= p.maxGas
  /\ Realized(m, r, p, size) <= p.maxSlippage * 100000000

-----------------------------------------------------------------------------
Init ==
  /\ InitClient
  /\ pc = "idle" /\ payloads = <<>>
  /\ paper \in BOOLEAN
  /\ policy \in {Resolve(layers) : layers \in PolicyLayers}
  /\ order = NoOrder /\ risk = NoRisk
  /\ mode = "skip" /\ approved = 0 /\ filled = 0
  /\ pending = [n \in Nodes |-> {}] /\ mined = <<>> /\ unanswered = {}

\* Equal parts: in whole units, none is more than one larger than another.
EqualParts(size, count) ==
  [i \in 1..count |-> (i * size) \div count - ((i - 1) * size) \div count]

\* Mutant of ChunkSizes: the count of chunks is rounded down.
ChunkSizesTooLarge(size) ==
  LET count == Max({size \div MaxTrade, 1})
  IN  IF size <= MaxTrade THEN <<size>>
      ELSE IF size \div count < MinNotional THEN <<MaxTrade>>
      ELSE EqualParts(size, count)

\* _build_chunk_sizes(): equal chunks, or the largest one alone when they would
\* be too small.
ChunkSizes(size) ==
  LET count == CeilDiv(size, MaxTrade)
  IN  IF size <= MaxTrade THEN <<size>>
      ELSE IF size \div count < MinNotional THEN <<MaxTrade>>
      ELSE EqualParts(size, count)

\* A decision becomes an order; _apply_trade_size_guard() cuts a large sell into
\* chunks and routes the first one, and cuts a large buy.
NewOrder(side, size) ==
  /\ pc = "idle" /\ signal < MaxOrders
  /\ pc' = "route"
  /\ LET chunks == IF side = "sell" THEN ChunkSizes(size) ELSE <<Min({size, MaxTrade})>>
     IN  order' = [side |-> side, size |-> Min({chunks[1], MaxTrade}), chunks |-> chunks]
  /\ risk' \in Risks
  /\ \E load \in Payloads : payloads' = Append(payloads, load)
  /\ UNCHANGED <<paper, policy, mode, approved, filled, chainVars, clientVars>>

Guarded ==
  /\ QuoteValid(risk, policy) /\ SlippageValid(risk, policy)
  /\ ~GasRefused(risk, policy)

Route == ResolvedMode(risk, policy, order.size)

Refuse == pc' = "done" /\ mode' = "skip" /\ UNCHANGED approved
Approve(m) == pc' = "checks" /\ mode' = m /\ approved' = order.size

\* execute_trade() ends with the simulation, whatever has been done before it.
Simulated(m) ==
  IF SimulationSucceeds(m, risk, policy, order.size) THEN Approve(m) ELSE Refuse

\* A guard refuses, no mode is left, or there is nothing to send in live mode.
RouterRefuses ==
  /\ pc = "route"
  /\ \/ ~Guarded
     \/ Route = "skip"
     \/ Route = "guarded_public" /\ ~PublicGuard(risk, policy)
     \/ Route = "private_tx" /\ ~paper /\ payload = NoPayload
  /\ Refuse
  /\ UNCHANGED <<paper, policy, payloads, order, risk, filled, chainVars, clientVars>>

\* A mode in which nothing is sent: private in paper mode, or not private.
RoutedWithoutSend ==
  /\ pc = "route" /\ Guarded /\ Route # "skip"
  /\ Route = "private_tx" => paper
  /\ Route = "guarded_public" => PublicGuard(risk, policy)
  /\ Simulated(Route)
  /\ UNCHANGED <<paper, policy, payloads, order, risk, filled, chainVars, clientVars>>

-----------------------------------------------------------------------------
(* PrivateTxExecutor._live_execute() *)

StartSend ==
  /\ pc = "route" /\ Guarded /\ Route = "private_tx"
  /\ ~paper /\ payload # NoPayload
  /\ StartCall
  /\ pc' = "send" /\ mode' = "private_tx"
  /\ UNCHANGED <<paper, policy, payloads, order, risk, approved, filled, chainVars>>

\* get_transaction_count(address, "pending") of a node.
PendingCount(node) ==
  LET known(nonce) == nonce <= Len(mined) \/ \E tx \in pending[node] : tx.nonce = nonce
  IN  Max({0} \cup {k \in Nonces : \A nonce \in 1..k : known(nonce)})

\* Mutant of NonceFor: the count replaces a nonce that was given.
NonceCounted(node) == PendingCount(node) + 1

\* _normalize_tx_params(), anew in every attempt: a given nonce stays.
NonceFor(node) ==
  IF payload # NoNonce THEN payload ELSE PendingCount(node) + 1

Tx(node) == [signal |-> signal, nonce |-> NonceFor(node)]

Usurped(node) ==
  NonceFor(node) <= Len(mined) \/ \E tx \in pending[node] : tx.nonce = NonceFor(node)

\* Mutant of NextAttempt: the error of the last attempt is swallowed.
NextAttemptSwallowed(kind) ==
  \/ Retry(kind) /\ UNCHANGED <<pc, mode, approved>>
  \/ GiveUp /\ Simulated("private_tx")

\* What a failed attempt leads to.
NextAttempt(kind) ==
  \/ Retry(kind) /\ UNCHANGED <<pc, mode, approved>>
  \/ GiveUp /\ Refuse

\* The request does not reach the node.
SendFails(kind) ==
  /\ pc = "send" /\ NextAttempt(kind)
  /\ UNCHANGED <<paper, policy, payloads, order, risk, filled, chainVars>>

\* The node does not take a nonce twice.
SendRejected ==
  /\ pc = "send" /\ Usurped(current) /\ NextAttempt("rpc_error")
  /\ UNCHANGED <<paper, policy, payloads, order, risk, filled, chainVars>>

Accept ==
  /\ pc = "send" /\ ~Usurped(current) /\ NonceFor(current) \in Nonces
  /\ pending' = [pending EXCEPT ![current] = @ \cup {Tx(current)}]
  /\ UNCHANGED <<paper, policy, payloads, order, risk, filled, mined>>

SendAnswered == Accept /\ Answered /\ Simulated("private_tx") /\ UNCHANGED unanswered

\* The node accepts the transaction, but the client sees an error: a timeout, a
\* broken connection, a gateway's error, or an answer that it cannot read.
AnswerLost(kind) ==
  /\ Accept /\ NextAttempt(kind)
  /\ unanswered' = unanswered \cup {signal}

\* External: a node passes a transaction on to one that can take it.
Gossip(from, to) ==
  /\ \E tx \in pending[from] :
       /\ \A other \in pending[to] : other.nonce # tx.nonce
       /\ pending' = [pending EXCEPT ![to] = @ \cup {tx}]
  /\ UNCHANGED <<pc, paper, policy, payloads, orderVars, mined, unanswered, clientVars>>

\* External: the next nonce of the account is mined; others of that nonce are void.
Mine(node) ==
  /\ \E tx \in pending[node] :
       /\ tx.nonce = Len(mined) + 1
       /\ mined' = Append(mined, tx)
       /\ pending' = [n \in Nodes |-> {t \in pending[n] : t.nonce # tx.nonce}]
  /\ UNCHANGED <<pc, paper, policy, payloads, orderVars, unanswered, clientVars>>

-----------------------------------------------------------------------------
(* The tick after routing. *)

\* The caps, the smallest order, can_place_* and the side flip may refuse.
ChecksRefuse ==
  /\ pc = "checks"
  /\ pc' = "done"
  /\ UNCHANGED <<paper, policy, payloads, orderVars, chainVars, clientVars>>

ChecksPass ==
  /\ pc = "checks" /\ order.size >= MinNotional
  /\ pc' = "fill"
  /\ UNCHANGED <<paper, policy, payloads, orderVars, chainVars, clientVars>>

\* simulate_fill() of a buy, or of the next chunk of a sell, which may be capped.
Fill(size) ==
  /\ pc = "fill"
  /\ order.side = "buy" => size = order.size
  /\ size \in MinNotional..order.chunks[1]
  /\ filled' = filled + size
  /\ order' = [order EXCEPT !.chunks = Tail(@)]
  /\ pc' = IF Len(order.chunks) = 1 THEN "done" ELSE "fill"
  /\ UNCHANGED <<paper, policy, payloads, risk, mode, approved, chainVars, clientVars>>

\* A fill that does not come, or a chunk too small: the rest is given up.
NoFill ==
  /\ pc = "fill"
  /\ pc' = "done"
  /\ UNCHANGED <<paper, policy, payloads, orderVars, chainVars, clientVars>>

\* The tick is over, and what it knew of the order is gone.
EndTick ==
  /\ pc = "done"
  /\ pc' = "idle"
  /\ order' = NoOrder /\ risk' = NoRisk
  /\ mode' = "skip" /\ approved' = 0 /\ filled' = 0
  /\ UNCHANGED <<paper, policy, payloads, chainVars, clientVars>>

AllRouted == pc = "idle" /\ signal = MaxOrders /\ UNCHANGED vars

Next ==
  \/ \E side \in {"buy", "sell"}, size \in Sizes : NewOrder(side, size)
  \/ RouterRefuses \/ RoutedWithoutSend
  \/ StartSend
  \/ \E kind \in {"timeout", "rpc_error"} : SendFails(kind) \/ AnswerLost(kind)
  \/ SendRejected \/ SendAnswered
  \/ \E a, b \in Nodes : Gossip(a, b)
  \/ \E n \in Nodes : Mine(n)
  \/ ChecksRefuse \/ ChecksPass \/ \E size \in 1..MaxTrade : Fill(size)
  \/ NoFill \/ EndTick \/ AllRouted

Spec == Init /\ [][Next]_vars

-----------------------------------------------------------------------------
(* Properties. *)

SentBy(s) == {n \in DOMAIN mined : mined[n].signal = s}
Known(s) ==
  SentBy(s) # {} \/ \E n \in Nodes : \E tx \in pending[n] : tx.signal = s

\* The type of every variable; nonces are mined in their order.
TypeOK ==
  /\ current \in Nodes /\ attempt \in 0..(MaxRetries + 1)
  /\ pc \in {"idle", "route", "send", "checks", "fill", "done"} /\ paper \in BOOLEAN
  /\ signal <= MaxOrders /\ \A s \in DOMAIN payloads : payloads[s] \in Payloads
  /\ order.side \in {"none", "buy", "sell"} /\ order.size \in 0..MaxTrade
  /\ order.chunks \in Seq(1..MaxTrade)
  /\ risk \in Risk
  /\ mode \in Modes \cup {"skip"} /\ approved \in 0..MaxTrade /\ filled \in Nat
  /\ \A n \in Nodes : pending[n] \subseteq [signal : 1..MaxOrders, nonce : Nonces]
  /\ \A n \in DOMAIN mined : mined[n].nonce = n
  /\ unanswered \subseteq 1..MaxOrders
  /\ (attempt > 0 <=> pc = "send")

\* guarded_public is only let through if quote, slippage, gas and MEV checks all
\* pass, whatever the policy prefers and whichever modes are not available.
PublicOnlyWhenSafe ==
  pc \in {"checks", "fill"} /\ mode = "guarded_public" =>
    /\ risk.quoteDev <= policy.maxQuoteDev /\ risk.twapDev <= policy.maxTwapDev
    /\ risk.slippage <= policy.maxSlippage /\ risk.impact <= policy.maxImpact
    /\ risk.gas <= policy.maxGas
    /\ risk.score < policy.publicMaxRisk /\ risk.sandwich <= 55

\* The retries of a send never get a signal executed twice if its nonce is given;
\* without one, a second execution takes an answer that was lost.
TwiceOnlyAfterLostAnswer ==
  \A s \in DOMAIN payloads :
    Cardinality(SentBy(s)) > 1 =>
      s \in unanswered /\ payloads[s] = NoNonce

\* The simulation comes after the transaction has been sent.  It can refuse a
\* trade that a node has confirmed only under a policy that allows less slippage
\* than the guard before it, which never asks for less than 2 bps.
SentIsApproved ==
  [][ SendAnswered /\ policy.maxSlippage >= 2 => approved' = order.size ]_vars

\* When a private trade is approved in live mode, some node has its transaction:
\* the failure of the last attempt is not taken for a success.
ApprovedIsSent ==
  [][ pc = "send" /\ pc' = "checks" => Known(signal)' ]_vars

\* What is filled of an order has been routed before.
FillsAreRouted == filled <= approved
==============================================================================
