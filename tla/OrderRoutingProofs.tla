------------------------- MODULE OrderRoutingProofs -------------------------
(***************************************************************************)
(* Theorems about routing: what is let through to the public mempool, how  *)
(* often a signal reaches the chain, and what the approval of a private    *)
(* transaction says of it, for all policies, risks and orders.             *)
(***************************************************************************)
EXTENDS OrderRouting, RpcFailoverProofs

Transactions == [signal : 1..MaxOrders, nonce : Nonces]

\* The transactions that the chain or a node has.
Sent ==
  {tx \in Transactions :
     (\E n \in Nodes : tx \in pending[n]) \/ (\E n \in DOMAIN mined : mined[n] = tx)}

\* What the steps know beyond the types: sequences, functions, and an order that
\* is being filled has chunks left.
Typed ==
  /\ TypeOK
  /\ payloads \in Seq(Payloads) /\ mined \in Seq(Transactions)
  /\ pending \in [Nodes -> SUBSET Transactions]
  /\ policy \in Policies
  /\ pc \in {"route", "send", "checks", "fill"} =>
       order.chunks # <<>> /\ payloads # <<>>

\* The guards let an order through to a send.
SendGuarded == pc = "send" => Guarded

\* Transactions and lost answers are those of the orders so far.
SentKnown ==
  /\ \A tx \in Sent : tx.signal \in DOMAIN payloads
  /\ unanswered \subseteq DOMAIN payloads

\* A nonce that is given is the nonce of every transaction of its signal.
NonceStays ==
  \A tx \in Sent : payloads[tx.signal] # NoNonce => tx.nonce = payloads[tx.signal]

\* Two nonces for a signal take an answer that was lost.
OneNonce ==
  \A a, b \in Sent :
    a.signal = b.signal /\ a.signal \notin unanswered => a.nonce = b.nonce

\* Before a signal is sent there is nothing of it, and as long as no answer is
\* lost nothing has been accepted while it is sent.
NotYetSent ==
  /\ pc = "route" => signal \notin unanswered
  /\ pc \in {"route", "send"} /\ signal \notin unanswered =>
       \A tx \in Sent : tx.signal # signal

\* The inductive invariant.
SentInv == SentKnown /\ NonceStays /\ OneNonce /\ NotYetSent
RoutingInv == Typed /\ SendGuarded /\ PublicOnlyWhenSafe /\ SentInv

-----------------------------------------------------------------------------
(* Amounts *)

\* The parameters that sizes are made of.
LEMMA Amounts ==
  /\ MaxTrade \in Nat \ {0} /\ MinNotional \in Nat /\ MaxOrders \in Nat
  /\ \A size \in Sizes : size \in Nat \ {0}
BY RoutingAssumption, Zenon

LEMMA SmallerOfTwo ==
  ASSUME NEW a \in Int, NEW b \in Int
  PROVE  Min({a, b}) = IF a <= b THEN a ELSE b
<1>1. \A x \in {a, b} : (\A y \in {a, b} : x <= y) <=> x = IF a <= b THEN a ELSE b
  OBVIOUS
<1>2. Min({a, b}) \in {a, b} /\ \A y \in {a, b} : Min({a, b}) <= y
  <2>1. \E x \in {a, b} : \A y \in {a, b} : x <= y
    OBVIOUS
  <2> QED BY <2>1, Zenon DEF Min
<1> QED BY <1>1, <1>2

LEMMA LargerOfTwo ==
  ASSUME NEW a \in Int, NEW b \in Int
  PROVE  Max({a, b}) = IF a >= b THEN a ELSE b
<1>1. \A x \in {a, b} : (\A y \in {a, b} : x >= y) <=> x = IF a >= b THEN a ELSE b
  OBVIOUS
<1>2. Max({a, b}) \in {a, b} /\ \A y \in {a, b} : Max({a, b}) >= y
  <2>1. \E x \in {a, b} : \A y \in {a, b} : x >= y
    OBVIOUS
  <2> QED BY <2>1, Zenon DEF Max
<1> QED BY <1>1, <1>2

\* A product grows with its factor.
LEMMA Product ==
  ASSUME NEW a \in Nat, NEW b \in Nat, NEW k \in Nat, a <= b
  PROVE  k * a <= k * b
<1>1. PICK d \in Nat : b = a + d
  <2>1. b - a \in Nat /\ b = a + (b - a)
    OBVIOUS
  <2> QED BY <2>1
<1>2. k * b = k * a + k * d /\ k * d \in Nat /\ k * a \in Nat
  BY <1>1
<1> QED BY <1>2

\* The quotient and the rest of a division.
LEMMA Quotient ==
  ASSUME NEW a \in Nat, NEW n \in Nat \ {0}
  PROVE  /\ a \div n \in Nat
         /\ n * (a \div n) <= a
         /\ a < n * (a \div n) + n
OBVIOUS

\* A dividend that grows by no more than k times the divisor makes a quotient
\* that grows by no more than k, and at least by 1 if it grows by the divisor.
LEMMA QuotientGrows ==
  ASSUME NEW a \in Nat, NEW b \in Nat, NEW n \in Nat \ {0}, NEW k \in Nat,
         b <= a + n * k, a + n <= b
  PROVE  (b \div n) - (a \div n) \in 1..k
<1> DEFINE q == a \div n
           r == b \div n
<1>1. q \in Nat /\ n * q <= a /\ a < n * q + n
  BY Quotient
<1>2. r \in Nat /\ n * r <= b /\ b < n * r + n
  BY Quotient
<1> HIDE DEF q, r
<1>3. r <= q + k
  <2>1. SUFFICES ASSUME r >= q + k + 1 PROVE FALSE
    BY <1>1, <1>2
  <2>2. n * (q + k + 1) <= n * r
    BY <1>1, <1>2, <2>1, Product
  <2>3. n * (q + k + 1) = n * q + n * k + n /\ n * q \in Nat /\ n * k \in Nat
    BY <1>1
  <2> QED BY <1>1, <1>2, <2>2, <2>3
<1>4. q + 1 <= r
  <2>1. SUFFICES ASSUME r <= q PROVE FALSE
    BY <1>1, <1>2
  <2>2. n * r <= n * q
    BY <1>1, <1>2, <2>1, Product
  <2>3. n * q \in Nat /\ n * r \in Nat
    BY <1>1, <1>2
  <2> QED BY <1>1, <1>2, <2>2, <2>3
<1> QED BY <1>1, <1>2, <1>3, <1>4 DEF q, r

\* The count of chunks, rounded up: enough for the size, and none is empty.
LEMMA CountOfChunks ==
  ASSUME NEW size \in Nat \ {0}
  PROVE  /\ CeilDiv(size, MaxTrade) \in Nat \ {0}
         /\ CeilDiv(size, MaxTrade) <= size
         /\ size <= CeilDiv(size, MaxTrade) * MaxTrade
<1> DEFINE c == CeilDiv(size, MaxTrade)
           up == size + MaxTrade - 1
<1>1. MaxTrade \in Nat \ {0} /\ up \in Nat /\ c = up \div MaxTrade
  BY Amounts DEF CeilDiv
<1>2. c \in Nat /\ MaxTrade * c <= up /\ up < MaxTrade * c + MaxTrade
  BY <1>1, Quotient
<1> HIDE DEF c
<1>3. MaxTrade * c \in Nat /\ MaxTrade * c = c * MaxTrade
  BY <1>1, <1>2
<1>4. size <= c * MaxTrade
  BY <1>1, <1>2, <1>3
<1>5. c # 0
  BY <1>1, <1>4
<1>6. c <= size
  <2>1. SUFFICES ASSUME c >= size + 1 PROVE FALSE
    BY <1>2
  <2>2. MaxTrade * (size + 1) <= MaxTrade * c
    BY <1>1, <1>2, <2>1, Product
  <2>3. MaxTrade * (size + 1) = MaxTrade * size + MaxTrade /\ MaxTrade * size \in Nat
    BY <1>1
  <2>4. size * 1 <= size * MaxTrade /\ size * MaxTrade = MaxTrade * size
    BY <1>1, Product
  <2> QED BY <1>1, <1>2, <1>3, <2>2, <2>3, <2>4
<1> QED BY <1>2, <1>4, <1>5, <1>6 DEF c

\* The chunks of an order are no larger than a trade may be, and none is empty.
LEMMA ChunksFit ==
  ASSUME NEW size \in Nat \ {0}
  PROVE  ChunkSizes(size) \in Seq(1..MaxTrade) /\ ChunkSizes(size) # <<>>
<1> DEFINE count == CeilDiv(size, MaxTrade)
<1>1. /\ MaxTrade \in Nat \ {0}
      /\ count \in Nat \ {0} /\ count <= size /\ size <= count * MaxTrade
  BY Amounts, CountOfChunks
<1>2. CASE size <= MaxTrade
  <2>1. ChunkSizes(size) = <<size>> /\ size \in 1..MaxTrade
    BY <1>1, <1>2 DEF ChunkSizes
  <2> QED BY <2>1
<1>3. CASE ~(size <= MaxTrade) /\ size \div count < MinNotional
  <2>1. ChunkSizes(size) = <<MaxTrade>> /\ MaxTrade \in 1..MaxTrade
    BY <1>1, <1>3 DEF ChunkSizes
  <2> QED BY <2>1
<1>4. CASE ~(size <= MaxTrade) /\ ~(size \div count < MinNotional)
  <2>1. ChunkSizes(size) = EqualParts(size, count)
    BY <1>4 DEF ChunkSizes
  <2> HIDE DEF count
  <2>2. ASSUME NEW i \in 1..count
        PROVE  (i * size) \div count - ((i - 1) * size) \div count \in 1..MaxTrade
    <3> DEFINE a == (i - 1) * size
               b == i * size
    <3>1. i - 1 \in Nat /\ i \in Nat /\ size \in Nat
      BY <1>1
    <3>2. a \in Nat /\ b \in Nat /\ b = a + size
      BY <3>1
    <3>3. count * MaxTrade \in Nat
      BY <1>1
    <3> HIDE DEF a, b
    <3>4. b <= a + count * MaxTrade /\ a + count <= b
      BY <1>1, <3>1, <3>2, <3>3
    <3> QED BY <1>1, <3>2, <3>4, QuotientGrows DEF a, b
  <2>3. EqualParts(size, count) \in [1..count -> 1..MaxTrade]
    BY <2>2 DEF EqualParts
  <2>4. EqualParts(size, count) \in Seq(1..MaxTrade)
    BY <1>1, <2>3, SeqDef
  <2>5. Len(EqualParts(size, count)) = count
    BY <1>1, <2>3, <2>4, LenProperties
  <2> QED BY <1>1, <2>1, <2>4, <2>5, EmptySeq
<1> QED BY <1>2, <1>3, <1>4

-----------------------------------------------------------------------------
(* Types *)

LEMMA Attempts ==
  MaxRetries \in Nat /\ 0 \in 0..(MaxRetries + 1) /\ 1 \in 0..(MaxRetries + 1)
<1>1. MaxRetries \in Nat
  BY FailoverAssumption, Zenon
<1> QED BY <1>1

\* What a failed attempt leads to.
LEMMA AttemptTyped ==
  ASSUME Typed, NEW kind, pc = "send", NextAttempt(kind)
  PROVE  /\ current' \in Nodes /\ attempt' \in 0..(MaxRetries + 1)
         /\ pc' \in {"send", "done"} /\ (attempt' > 0 <=> pc' = "send")
         /\ mode' \in Modes \cup {"skip"} /\ approved' \in 0..MaxTrade
<1>1. /\ current \in Nodes /\ attempt \in 0..(MaxRetries + 1)
      /\ mode \in Modes \cup {"skip"} /\ approved \in 0..MaxTrade
  BY DEF Typed, TypeOK
<1>2. CASE Retry(kind) /\ UNCHANGED <<pc, mode, approved>>
  <2>1. /\ attempt' = attempt + 1 /\ attempt \in 1..MaxRetries
        /\ current' = IF Retryable(kind) THEN Rotated ELSE current
    BY <1>2 DEF Retry
  <2>2. Rotated \in Nodes
    BY <1>1, RotatedNext, Zenon DEF Nodes
  <2>3. attempt' \in 0..(MaxRetries + 1) /\ attempt' > 0
    BY <2>1, Attempts
  <2>4. current' \in Nodes
    BY <1>1, <2>1, <2>2
  <2> QED BY <1>1, <1>2, <2>3, <2>4
<1>3. CASE GiveUp /\ Refuse
  <2>1. attempt' = 0 /\ current' = current /\ pc' = "done" /\ mode' = "skip"
        /\ approved' = approved
    BY <1>3 DEF GiveUp, Refuse
  <2> QED BY <1>1, <2>1, Attempts
<1> QED BY <1>2, <1>3 DEF NextAttempt

\* What the end of the router leads to.
LEMMA SimulatedTyped ==
  ASSUME Typed, NEW m \in Modes, Simulated(m)
  PROVE  /\ pc' \in {"checks", "done"}
         /\ mode' \in Modes \cup {"skip"} /\ approved' \in 0..MaxTrade
BY DEF Typed, TypeOK, Simulated, Approve, Refuse

\* The mode that the router resolves is a mode, or none.
LEMMA RouteMode == Route \in Modes \cup {"skip"}
<1> DEFINE usable == Usable(risk, policy, order.size)
<1>1. usable \subseteq Modes
  BY DEF Usable
<1>2. FirstUsable(usable) \in Modes \cup {"skip"}
  BY DEF FirstUsable, Modes
<1> HIDE DEF usable
<1> QED BY <1>1, <1>2, Zenon DEF Route, ResolvedMode, usable

LEMMA TypedInit == Init => Typed
<1> SUFFICES ASSUME Init PROVE Typed
  OBVIOUS
<1>1. current \in Nodes /\ attempt = 0
  <2>1. 1 \in 1..Len(Endpoints)
    BY EndpointsList
  <2> QED BY <2>1, EndpointsList, Zenon DEF Init, InitClient, Nodes
<1>2. policy \in Policies
  BY PolicyAssumption DEF Init
<1>3. /\ payloads = <<>> /\ mined = <<>> /\ pc = "idle" /\ mode = "skip"
      /\ approved = 0 /\ filled = 0 /\ unanswered = {} /\ paper \in BOOLEAN
      /\ pending = [n \in Nodes |-> {}]
  BY DEF Init
<1>4. payloads \in Seq(Payloads) /\ mined \in Seq(Transactions)
      /\ Len(payloads) = 0 /\ DOMAIN payloads = {} /\ DOMAIN mined = {}
  BY <1>3
<1>5. pending \in [Nodes -> SUBSET Transactions]
  BY <1>3
<1>6. /\ order.side \in {"none", "buy", "sell"} /\ order.size \in 0..MaxTrade
      /\ order.chunks \in Seq(1..MaxTrade)
  <2>1. order.side = "none" /\ order.size = 0 /\ order.chunks = <<>>
    BY DEF Init, NoOrder
  <2> QED BY <2>1, Amounts
<1>7. risk \in Risk
  BY DEF Init, NoRisk, Risk
<1>8. TypeOK
  <2>1. signal <= MaxOrders
    BY <1>4, Amounts DEF signal
  <2>2. approved \in 0..MaxTrade /\ filled \in Nat
    BY <1>3, Amounts
  <2>3. attempt > 0 <=> pc = "send"
    BY <1>1, <1>3
  <2>4. \A n \in Nodes : pending[n] \subseteq [signal : 1..MaxOrders, nonce : Nonces]
    BY <1>5 DEF Transactions
  <2>5. attempt \in 0..(MaxRetries + 1)
    BY <1>1, Attempts
  <2>6. pc \in {"idle", "route", "send", "checks", "fill", "done"}
    BY <1>3
  <2>7. \A s \in DOMAIN payloads : payloads[s] \in Payloads
    BY <1>4
  <2>8. \A n \in DOMAIN mined : mined[n].nonce = n
    BY <1>4
  <2> QED BY <1>1, <1>3, <1>6, <1>7, <2>1, <2>2, <2>3, <2>4, <2>5, <2>6, <2>7,
        <2>8, Zenon DEF TypeOK
<1> QED BY <1>2, <1>3, <1>4, <1>5, <1>8 DEF Typed

LEMMA TypedNewOrder ==
  ASSUME Typed, NEW side \in {"buy", "sell"}, NEW size \in Sizes,
         NewOrder(side, size)
  PROVE  Typed'
<1> DEFINE chunks == IF side = "sell" THEN ChunkSizes(size)
                     ELSE <<Min({size, MaxTrade})>>
<1>1. size \in Nat \ {0} /\ MaxTrade \in Nat \ {0} /\ MaxOrders \in Nat
  BY Amounts
<1>2. chunks \in Seq(1..MaxTrade) /\ chunks # <<>>
  <2>1. CASE side = "sell"
    BY <1>1, <2>1, ChunksFit
  <2>2. CASE side # "sell"
    <3> DEFINE least == Min({size, MaxTrade})
    <3>1. least \in 1..MaxTrade
      BY <1>1, SmallerOfTwo
    <3>2. chunks = <<least>>
      BY <2>2
    <3> HIDE DEF least
    <3>3. <<least>> \in Seq(1..MaxTrade) /\ <<least>> # <<>>
      BY <1>1, <3>1
    <3> QED BY <3>2, <3>3, Zenon
  <2> QED BY <2>1, <2>2
<1>3. order' = [side |-> side, size |-> Min({chunks[1], MaxTrade}), chunks |-> chunks]
  BY DEF NewOrder
<1>4. Min({chunks[1], MaxTrade}) \in 0..MaxTrade
  <2> HIDE DEF chunks
  <2>1. chunks[1] \in 1..MaxTrade
    <3>1. Len(chunks) \in Nat \ {0}
      BY <1>2, EmptySeq
    <3>2. 1 \in 1..Len(chunks)
      BY <3>1
    <3> QED BY <1>2, <3>2, ElementOfSeq
  <2> QED BY <1>1, <2>1, SmallerOfTwo
<1> HIDE DEF chunks
<1>5. /\ order'.side \in {"none", "buy", "sell"} /\ order'.size \in 0..MaxTrade
      /\ order'.chunks \in Seq(1..MaxTrade) /\ order'.chunks # <<>>
  BY <1>2, <1>3, <1>4
<1>6. risk' \in Risk
  BY PolicyAssumption DEF NewOrder
<1>7. PICK load \in Payloads : payloads' = Append(payloads, load)
  BY DEF NewOrder
<1>8. /\ payloads' \in Seq(Payloads) /\ payloads' # <<>>
      /\ Len(payloads') = Len(payloads) + 1
      /\ \A s \in DOMAIN payloads' : payloads'[s] \in Payloads
  BY <1>7, AppendProperties DEF Typed
<1>9. signal' <= MaxOrders
  <2>1. Len(payloads) \in Nat /\ Len(payloads) < MaxOrders
    BY LenProperties DEF Typed, NewOrder, signal
  <2> QED BY <1>1, <1>8, <2>1 DEF signal
<1>10. /\ pc = "idle" /\ pc' = "route"
       /\ UNCHANGED <<paper, policy, mode, approved, filled, pending, mined,
                      unanswered, current, attempt>>
  BY DEF NewOrder, chainVars, clientVars
<1>11. attempt' > 0 <=> pc' = "send"
  BY <1>10 DEF Typed, TypeOK
<1>12. TypeOK'
  <2>1. pc' \in {"idle", "route", "send", "checks", "fill", "done"}
    BY <1>10
  <2> QED BY <1>5, <1>6, <1>8, <1>9, <1>10, <1>11, <2>1, Zenon
        DEF Typed, TypeOK, Nodes
<1> QED BY <1>5, <1>8, <1>10, <1>12, Zenon DEF Typed, Nodes

\* Steps in which the order, the client and the chain stay as they are.
LEMMA TypedInPlace ==
  ASSUME Typed,
         UNCHANGED <<paper, policy, payloads, order, risk, pending, mined,
                     unanswered, current, attempt>>,
         filled' \in Nat, mode' \in Modes \cup {"skip"}, approved' \in 0..MaxTrade,
         \/ pc' = pc
         \/ pc \in {"route", "checks", "fill"} /\ pc' \in {"checks", "fill", "done"}
  PROVE  Typed'
<1>1. attempt' > 0 <=> pc' = "send"
  BY DEF Typed, TypeOK
<1>2. pc' \in {"idle", "route", "send", "checks", "fill", "done"}
  BY DEF Typed, TypeOK
<1>3. pc' \in {"route", "send", "checks", "fill"} =>
        pc \in {"route", "send", "checks", "fill"}
  OBVIOUS
<1>4. signal' = signal /\ Nodes' = Nodes
  BY DEF signal, Nodes
<1>5. TypeOK'
  BY <1>1, <1>2, <1>4, Zenon DEF Typed, TypeOK
<1> QED BY <1>3, <1>4, <1>5, Zenon DEF Typed

LEMMA TypedRouter ==
  ASSUME Typed, RouterRefuses \/ RoutedWithoutSend
  PROVE  Typed'
<1>1. /\ UNCHANGED <<paper, policy, payloads, order, risk, filled, pending, mined,
                     unanswered, current, attempt>>
      /\ pc = "route"
  BY DEF RouterRefuses, RoutedWithoutSend, chainVars, clientVars
<1>2. /\ filled \in Nat /\ mode \in Modes \cup {"skip"} /\ approved \in 0..MaxTrade
  BY DEF Typed, TypeOK
<1>3. /\ pc' \in {"checks", "done"}
      /\ mode' \in Modes \cup {"skip"} /\ approved' \in 0..MaxTrade
  <2>1. CASE RouterRefuses
    BY <1>2, <2>1 DEF RouterRefuses, Refuse
  <2>2. CASE RoutedWithoutSend
    <3>1. Simulated(Route) /\ Route \in Modes
      BY <2>2, RouteMode DEF RoutedWithoutSend
    <3> QED BY <3>1, SimulatedTyped
  <2> QED BY <2>1, <2>2
<1> QED BY <1>1, <1>2, <1>3, TypedInPlace

LEMMA TypedAfterRouting ==
  ASSUME Typed, ChecksRefuse \/ ChecksPass \/ NoFill \/ UNCHANGED vars
  PROVE  Typed'
<1>1. /\ UNCHANGED <<paper, policy, payloads, order, risk, filled, mode, approved,
                     pending, mined, unanswered, current, attempt>>
      /\ pc' = pc \/ (pc \in {"checks", "fill"} /\ pc' \in {"fill", "done"})
  BY DEF ChecksRefuse, ChecksPass, NoFill, vars, orderVars, chainVars, clientVars
<1>2. filled \in Nat /\ mode \in Modes \cup {"skip"} /\ approved \in 0..MaxTrade
  BY DEF Typed, TypeOK
<1> QED BY <1>1, <1>2, TypedInPlace

LEMMA TypedFill ==
  ASSUME Typed, NEW size \in 1..MaxTrade, Fill(size)
  PROVE  Typed'
<1>1. /\ pc = "fill" /\ filled' = filled + size
      /\ order' = [order EXCEPT !.chunks = Tail(@)]
      /\ pc' = IF Len(order.chunks) = 1 THEN "done" ELSE "fill"
      /\ UNCHANGED <<paper, policy, payloads, risk, mode, approved, pending, mined,
                     unanswered, current, attempt>>
  BY DEF Fill, chainVars, clientVars
<1>2. order.chunks \in Seq(1..MaxTrade) /\ order.chunks # <<>> /\ payloads # <<>>
  BY <1>1 DEF Typed, TypeOK
<1>3. /\ Tail(order.chunks) \in Seq(1..MaxTrade)
      /\ Len(Tail(order.chunks)) = Len(order.chunks) - 1
      /\ Len(order.chunks) \in Nat
  BY <1>2, HeadTailProperties, LenProperties
<1>4. /\ order'.side \in {"none", "buy", "sell"} /\ order'.size \in 0..MaxTrade
      /\ order'.chunks \in Seq(1..MaxTrade)
      /\ pc' = "fill" => order'.chunks # <<>>
  <2>2. order'.side = order.side /\ order'.size = order.size
    BY <1>1
  \* The types say what the fields of an order are, not that it has no others.
  <2>3. \/ order'.chunks = Tail(order.chunks)
        \/ order'.chunks = order.chunks
    BY <1>1
  <2>4. order'.chunks \in Seq(1..MaxTrade)
    BY <1>2, <1>3, <2>3
  <2>5. pc' = "fill" => order'.chunks # <<>>
    <3>1. Len(<<>>) = 0
      OBVIOUS
    <3>2. pc' = "fill" => Len(Tail(order.chunks)) # 0
      BY <1>1, <1>2, <1>3
    <3>3. pc' = "fill" => Tail(order.chunks) # <<>>
      BY <3>1, <3>2
    <3> QED BY <1>2, <2>3, <3>3
  <2> QED BY <2>2, <2>4, <2>5, Zenon DEF Typed, TypeOK
<1>5. filled' \in Nat
  <2>1. filled \in Nat /\ MaxTrade \in Nat
    BY Amounts DEF Typed, TypeOK
  <2> QED BY <1>1, <2>1
<1>6. (attempt' > 0 <=> pc' = "send") /\ pc' \in {"done", "fill"}
  BY <1>1 DEF Typed, TypeOK
<1>7. signal' = signal /\ Nodes' = Nodes
  BY <1>1 DEF signal, Nodes
<1>8. TypeOK'
  <2>1. pc' \in {"idle", "route", "send", "checks", "fill", "done"}
    BY <1>6
  <2> QED BY <1>1, <1>4, <1>5, <1>6, <1>7, <2>1, Zenon DEF Typed, TypeOK
<1>9. pc' \in {"route", "send", "checks", "fill"} => pc' = "fill"
  BY <1>6
<1> QED BY <1>1, <1>2, <1>4, <1>7, <1>8, <1>9, Zenon DEF Typed

LEMMA TypedStartSend ==
  ASSUME Typed, StartSend
  PROVE  Typed'
<1>1. /\ pc = "route" /\ pc' = "send" /\ mode' = "private_tx"
      /\ attempt' = 1 /\ current' = current
      /\ UNCHANGED <<paper, policy, payloads, order, risk, approved, filled,
                     pending, mined, unanswered>>
  BY DEF StartSend, StartCall, chainVars
<1>2. attempt' > 0 <=> pc' = "send"
  BY <1>1
<1>3. pc' \in {"idle", "route", "send", "checks", "fill", "done"}
  BY <1>1
<1>4. mode' \in Modes \cup {"skip"} /\ attempt' \in 0..(MaxRetries + 1)
  BY <1>1, Attempts DEF Modes
<1>5. order.chunks # <<>> /\ payloads # <<>>
  BY <1>1 DEF Typed
<1>6. signal' = signal /\ Nodes' = Nodes
  BY <1>1 DEF signal, Nodes
<1>7. TypeOK'
  BY <1>1, <1>2, <1>3, <1>4, <1>6, Zenon DEF Typed, TypeOK
<1> QED BY <1>1, <1>5, <1>6, <1>7, Zenon DEF Typed

\* A step of a send: the client and the pending transactions may change.
LEMMA TypedSend ==
  ASSUME Typed, pc = "send",
         UNCHANGED <<paper, policy, payloads, order, risk, filled, mined>>,
         pending' \in [Nodes -> SUBSET Transactions],
         unanswered' \subseteq 1..MaxOrders,
         current' \in Nodes, attempt' \in 0..(MaxRetries + 1),
         pc' \in {"send", "checks", "done"}, attempt' > 0 <=> pc' = "send",
         mode' \in Modes \cup {"skip"}, approved' \in 0..MaxTrade
  PROVE  Typed'
<1>1. pc' \in {"idle", "route", "send", "checks", "fill", "done"}
  OBVIOUS
<1>2. order.chunks # <<>> /\ payloads # <<>>
  BY DEF Typed
<1>3. signal' = signal /\ Nodes' = Nodes
  BY DEF signal, Nodes
<1>4. \A n \in Nodes : pending'[n] \subseteq [signal : 1..MaxOrders, nonce : Nonces]
  BY DEF Transactions
<1>5. TypeOK'
  BY <1>1, <1>3, <1>4, Zenon DEF Typed, TypeOK
<1> QED BY <1>2, <1>3, <1>5, Zenon DEF Typed

LEMMA TypedSendFails ==
  ASSUME Typed, NEW kind, SendFails(kind) \/ SendRejected
  PROVE  Typed'
<1>1. /\ pc = "send" /\ \E k \in {kind, "rpc_error"} : NextAttempt(k)
      /\ UNCHANGED <<paper, policy, payloads, order, risk, filled, mined,
                     pending, unanswered>>
  BY DEF SendFails, SendRejected, chainVars
<1>2. /\ pending \in [Nodes -> SUBSET Transactions]
      /\ unanswered \subseteq 1..MaxOrders
  BY DEF Typed, TypeOK
<1>3. PICK k \in {kind, "rpc_error"} : NextAttempt(k)
  BY <1>1
<1> QED BY <1>1, <1>2, <1>3, AttemptTyped, TypedSend

\* A node that accepts a transaction keeps it with the ones it has.
LEMMA AcceptTyped ==
  ASSUME Typed, Accept
  PROVE  /\ Tx(current) \in Transactions /\ signal \in DOMAIN payloads
         /\ signal \in 1..MaxOrders
         /\ pending' \in [Nodes -> SUBSET Transactions]
         /\ pending'[current] = pending[current] \cup {Tx(current)}
         /\ \A n \in Nodes : n # current => pending'[n] = pending[n]
<1>1. payloads \in Seq(Payloads) /\ payloads # <<>> /\ signal <= MaxOrders
  BY DEF Typed, TypeOK, Accept
<1>2. signal \in Nat \ {0}
  BY <1>1, EmptySeq DEF signal
<1>3. signal \in DOMAIN payloads
  <2>1. DOMAIN payloads = 1..signal
    BY <1>1, LenProperties DEF signal
  <2> QED BY <1>2, <2>1
<1>4. signal \in 1..MaxOrders
  BY <1>1, <1>2, Amounts
<1>5. Tx(current) \in Transactions
  BY <1>4 DEF Tx, Transactions, Accept
<1>6. /\ pending' = [pending EXCEPT ![current] = @ \cup {Tx(current)}]
      /\ current \in Nodes /\ pending \in [Nodes -> SUBSET Transactions]
  BY DEF Typed, TypeOK, Accept
<1> HIDE DEF Tx, Transactions
<1> QED BY <1>3, <1>4, <1>5, <1>6

LEMMA TypedSendAnswered ==
  ASSUME Typed, SendAnswered
  PROVE  Typed'
<1>1. /\ pc = "send" /\ attempt' = 0 /\ current' = current /\ Accept
      /\ Simulated("private_tx")
      /\ UNCHANGED <<paper, policy, payloads, order, risk, filled, mined, unanswered>>
  BY DEF SendAnswered, Accept, Answered
<1>2. /\ pc' \in {"checks", "done"}
      /\ mode' \in Modes \cup {"skip"} /\ approved' \in 0..MaxTrade
  BY <1>1, SimulatedTyped DEF Modes
<1>3. pending' \in [Nodes -> SUBSET Transactions]
  BY <1>1, AcceptTyped
<1>4. current \in Nodes /\ unanswered \subseteq 1..MaxOrders
  BY DEF Typed, TypeOK
<1>5. attempt' > 0 <=> pc' = "send"
  BY <1>1, <1>2
<1> QED BY <1>1, <1>2, <1>3, <1>4, <1>5, Attempts, TypedSend

LEMMA TypedAnswerLost ==
  ASSUME Typed, NEW kind, AnswerLost(kind)
  PROVE  Typed'
<1>1. /\ pc = "send" /\ Accept /\ NextAttempt(kind)
      /\ unanswered' = unanswered \cup {signal}
      /\ UNCHANGED <<paper, policy, payloads, order, risk, filled, mined>>
  BY DEF AnswerLost, Accept
<1>2. /\ pending' \in [Nodes -> SUBSET Transactions] /\ signal \in 1..MaxOrders
      /\ unanswered \subseteq 1..MaxOrders
  BY <1>1, AcceptTyped DEF Typed, TypeOK
<1>3. unanswered' \subseteq 1..MaxOrders
  BY <1>1, <1>2
<1> QED BY <1>1, <1>2, <1>3, AttemptTyped, TypedSend

\* Steps of the nodes and of the chain.
LEMMA TypedChain ==
  ASSUME Typed,
         UNCHANGED <<pc, paper, policy, payloads, orderVars, unanswered, clientVars>>,
         mined' \in Seq(Transactions), \A n \in DOMAIN mined' : mined'[n].nonce = n,
         pending' \in [Nodes -> SUBSET Transactions]
  PROVE  Typed'
<1>1. UNCHANGED <<pc, paper, policy, payloads, order, risk, mode, approved, filled,
                  unanswered, current, attempt>>
  BY DEF orderVars, clientVars
<1>2. signal' = signal /\ Nodes' = Nodes
  BY <1>1 DEF signal, Nodes
<1>3. \A n \in Nodes : pending'[n] \subseteq [signal : 1..MaxOrders, nonce : Nonces]
  BY DEF Transactions
<1>4. attempt' > 0 <=> pc' = "send"
  BY <1>1 DEF Typed, TypeOK
<1>5. TypeOK'
  BY <1>1, <1>2, <1>3, <1>4, Zenon DEF Typed, TypeOK
<1> QED BY <1>1, <1>2, <1>5, Zenon DEF Typed

LEMMA TypedGossip ==
  ASSUME Typed, NEW from \in Nodes, NEW to \in Nodes, Gossip(from, to)
  PROVE  Typed'
<1>1. PICK tx \in pending[from] : pending' = [pending EXCEPT ![to] = @ \cup {tx}]
  BY DEF Gossip
<1>2. /\ pending \in [Nodes -> SUBSET Transactions] /\ mined \in Seq(Transactions)
      /\ \A n \in DOMAIN mined : mined[n].nonce = n
  BY DEF Typed, TypeOK
<1> HIDE DEF Transactions
<1>3. pending' \in [Nodes -> SUBSET Transactions]
  BY <1>1, <1>2
<1>4. mined' = mined
  BY DEF Gossip
<1> QED BY <1>2, <1>3, <1>4, TypedChain DEF Gossip

\* The transaction that is mined has the next nonce.
LEMMA MinedNext ==
  ASSUME Typed, NEW node \in Nodes, NEW tx \in pending[node],
         tx.nonce = Len(mined) + 1, mined' = Append(mined, tx)
  PROVE  /\ mined' \in Seq(Transactions) /\ tx \in Transactions
         /\ \A n \in DOMAIN mined' : n \in DOMAIN mined \/ mined'[n] = tx
         /\ \A n \in DOMAIN mined : mined'[n] = mined[n]
         /\ \A n \in DOMAIN mined' : mined'[n].nonce = n
<1>1. /\ pending \in [Nodes -> SUBSET Transactions] /\ mined \in Seq(Transactions)
      /\ \A n \in DOMAIN mined : mined[n].nonce = n
  BY DEF Typed, TypeOK
<1> HIDE DEF Transactions
<1>2. tx \in Transactions
  BY <1>1
<1>3. /\ mined' \in Seq(Transactions)
      /\ Len(mined') = Len(mined) + 1
      /\ \A i \in 1..Len(mined) : mined'[i] = mined[i]
      /\ mined'[Len(mined) + 1] = tx
  BY <1>1, <1>2, AppendProperties
<1>4. DOMAIN mined = 1..Len(mined) /\ DOMAIN mined' = 1..Len(mined') /\ Len(mined) \in Nat
  BY <1>1, <1>3, LenProperties
<1>5. \A n \in DOMAIN mined' : n \in DOMAIN mined \/ n = Len(mined) + 1
  BY <1>3, <1>4
<1>6. \A n \in DOMAIN mined' : mined'[n].nonce = n
  BY <1>1, <1>3, <1>4, <1>5
<1> QED BY <1>2, <1>3, <1>4, <1>5, <1>6

LEMMA TypedMine ==
  ASSUME Typed, NEW node \in Nodes, Mine(node)
  PROVE  Typed'
<1>1. PICK tx \in pending[node] :
        /\ tx.nonce = Len(mined) + 1 /\ mined' = Append(mined, tx)
        /\ pending' = [n \in Nodes |-> {t \in pending[n] : t.nonce # tx.nonce}]
  BY DEF Mine
<1>2. pending \in [Nodes -> SUBSET Transactions]
  BY DEF Typed
<1> HIDE DEF Transactions
<1>3. pending' \in [Nodes -> SUBSET Transactions]
  BY <1>1, <1>2
<1>4. mined' \in Seq(Transactions) /\ \A n \in DOMAIN mined' : mined'[n].nonce = n
  BY <1>1, MinedNext
<1> QED BY <1>3, <1>4, TypedChain DEF Mine

LEMMA TypedEndTick ==
  ASSUME Typed, EndTick
  PROVE  Typed'
<1>1. /\ pc = "done" /\ pc' = "idle" /\ order' = NoOrder /\ risk' = NoRisk
      /\ mode' = "skip" /\ approved' = 0 /\ filled' = 0
      /\ UNCHANGED <<paper, policy, payloads, pending, mined, unanswered,
                     current, attempt>>
  BY DEF EndTick, chainVars, clientVars
<1>2. /\ order'.side \in {"none", "buy", "sell"} /\ order'.size \in 0..MaxTrade
      /\ order'.chunks \in Seq(1..MaxTrade)
  <2>1. order'.side = "none" /\ order'.size = 0 /\ order'.chunks = <<>>
    BY <1>1 DEF NoOrder
  <2> QED BY <2>1, Amounts
<1>3. risk' \in Risk
  BY <1>1 DEF NoRisk, Risk
<1>4. mode' \in Modes \cup {"skip"} /\ approved' \in 0..MaxTrade /\ filled' \in Nat
  BY <1>1, Amounts
<1>5. (attempt' > 0 <=> pc' = "send")
      /\ pc' \in {"idle", "route", "send", "checks", "fill", "done"}
  BY <1>1 DEF Typed, TypeOK
<1>6. signal' = signal /\ Nodes' = Nodes
  BY <1>1 DEF signal, Nodes
<1>7. TypeOK'
  BY <1>1, <1>2, <1>3, <1>4, <1>5, <1>6, Zenon DEF Typed, TypeOK
<1>8. pc' \notin {"route", "send", "checks", "fill"}
  BY <1>1
<1> QED BY <1>1, <1>6, <1>7, <1>8, Zenon DEF Typed

LEMMA TypedStep == Typed /\ [Next]_vars => Typed'
<1> SUFFICES ASSUME Typed, [Next]_vars PROVE Typed'
  OBVIOUS
<1>1. AllRouted => UNCHANGED vars
  BY DEF AllRouted
<1> QED BY <1>1, TypedNewOrder, TypedRouter, TypedStartSend, TypedSendFails,
      TypedSendAnswered, TypedAnswerLost, TypedGossip, TypedMine,
      TypedAfterRouting, TypedFill, TypedEndTick, Zenon DEF Next

\* The types hold in every state, for all policies, sizes, urls and numbers of
\* orders: chunks fit a trade, nonces are mined in their order, and a call of
\* the client is under way just when a transaction is being sent.
THEOREM RoutingTyped == Spec => []TypeOK
<1>1. Typed => TypeOK
  BY DEF Typed
<1> QED BY <1>1, TypedInit, TypedStep, PTL DEF Spec

-----------------------------------------------------------------------------
(* The guards *)

\* The order that is let through is the one that the guards have seen.
Judged == UNCHANGED <<paper, policy, risk>>

LEMMA GuardKept ==
  ASSUME Judged
  PROVE  Guarded' <=> Guarded
BY DEF Judged, Guarded, QuoteValid, SlippageValid, GasRefused

LEMMA SendGuardedStep == SendGuarded /\ [Next]_vars => SendGuarded'
<1> SUFFICES ASSUME SendGuarded, [Next]_vars, pc' = "send" PROVE Guarded'
  BY DEF SendGuarded
<1>1. CASE StartSend
  BY <1>1, GuardKept DEF StartSend, Judged
<1>2. CASE ~StartSend
  <2>1. pc = "send" /\ Judged
    BY <1>2 DEF Next, NewOrder, RouterRefuses, RoutedWithoutSend, Simulated, Approve,
      Refuse, SendFails, SendRejected, SendAnswered, AnswerLost, Accept, Gossip,
      Mine, ChecksRefuse, ChecksPass, Fill, NoFill, EndTick, AllRouted, vars,
      orderVars, Judged
  <2> QED BY <2>1, GuardKept DEF SendGuarded
<1> QED BY <1>1, <1>2

\* Whatever is let through to the public mempool passes the guards, the public
\* guard and the simulation.
LEMMA PublicStep == PublicOnlyWhenSafe /\ [Next]_vars => PublicOnlyWhenSafe'
<1> SUFFICES ASSUME PublicOnlyWhenSafe, [Next]_vars,
                    pc' \in {"checks", "fill"}, mode' = "guarded_public"
             PROVE  PublicOnlyWhenSafe'
  BY DEF PublicOnlyWhenSafe
<1>1. CASE RoutedWithoutSend
  <2>1. /\ Guarded /\ Simulated(Route) /\ Judged
        /\ Route = "guarded_public" => PublicGuard(risk, policy)
    BY <1>1 DEF RoutedWithoutSend, Judged
  <2>2. SimulationSucceeds(Route, risk, policy, order.size) /\ mode' = Route
    BY <2>1 DEF Simulated, Approve, Refuse
  <2>3. PublicAllowed(risk, policy) /\ PublicGuard(risk, policy)
    BY <2>1, <2>2 DEF SimulationSucceeds
  <2> QED BY <2>1, <2>3 DEF Judged, PublicOnlyWhenSafe, Guarded, QuoteValid,
        PublicAllowed, PublicGuard
<1>2. CASE ~RoutedWithoutSend
  <2>1. pc \in {"checks", "fill"} /\ mode' = mode /\ Judged
    BY <1>2 DEF Next, NewOrder, RouterRefuses, StartSend, Simulated, Approve,
      Refuse, SendFails, SendRejected, SendAnswered, AnswerLost, Accept, NextAttempt,
      Gossip, Mine, ChecksRefuse, ChecksPass, Fill, NoFill, EndTick, AllRouted,
      vars, orderVars, Judged
  <2> QED BY <2>1 DEF PublicOnlyWhenSafe, Judged
<1> QED BY <1>1, <1>2

\* An order is let through to the public mempool only if quote, slippage, gas and
\* MEV checks all pass, whatever the policy file says of its limits, its preferred
\* mode and the modes that are allowed.
THEOREM PublicSafe == Spec => []PublicOnlyWhenSafe
<1>1. Init => PublicOnlyWhenSafe
  BY DEF Init, PublicOnlyWhenSafe
<1> QED BY <1>1, PublicStep, PTL DEF Spec

-----------------------------------------------------------------------------
(* What is sent *)

\* An accepted transaction joins those that are there.
LEMMA AcceptSends ==
  ASSUME Typed, Accept
  PROVE  \A tx \in Sent' : tx \in Sent \/ tx = Tx(current)
<1>1. mined' = mined
  BY DEF Accept
<1>2. \A n \in Nodes : pending'[n] = pending[n]
                       \/ pending'[n] = pending[n] \cup {Tx(current)}
  BY AcceptTyped
<1> SUFFICES ASSUME NEW tx \in Sent', tx # Tx(current) PROVE tx \in Sent
  OBVIOUS
<1>3. /\ tx \in Transactions
      /\ (\E n \in Nodes : tx \in pending'[n]) \/ (\E n \in DOMAIN mined : mined[n] = tx)
  BY <1>1 DEF Sent, Transactions, Nonces, Nodes
<1> HIDE DEF Transactions
<1> QED BY <1>2, <1>3, Zenon DEF Sent

\* Nothing new is sent by a node that passes a transaction on, or by the chain.
LEMMA ChainSends ==
  ASSUME Typed, NEW from \in Nodes, NEW to \in Nodes,
         Gossip(from, to) \/ Mine(from)
  PROVE  \A tx \in Sent' : tx \in Sent
<1> SUFFICES ASSUME NEW tx \in Sent' PROVE tx \in Sent
  OBVIOUS
<1>1. /\ tx \in Transactions
      /\ (\E n \in Nodes : tx \in pending'[n]) \/ (\E n \in DOMAIN mined' : mined'[n] = tx)
  BY DEF Sent, Transactions, Nonces, Nodes
<1>2. pending \in [Nodes -> SUBSET Transactions]
  BY DEF Typed
<1> HIDE DEF Transactions
<1>3. CASE Gossip(from, to)
  <2>1. PICK sent \in pending[from] : pending' = [pending EXCEPT ![to] = @ \cup {sent}]
    BY <1>3 DEF Gossip
  <2>2. mined' = mined
    BY <1>3 DEF Gossip
  <2>3. \A n \in Nodes : pending'[n] \subseteq pending[n] \cup {sent}
    BY <1>2, <2>1
  <2> QED BY <1>1, <2>1, <2>2, <2>3, Zenon DEF Sent
<1>4. CASE Mine(from)
  <2>1. PICK next \in pending[from] :
          /\ next.nonce = Len(mined) + 1 /\ mined' = Append(mined, next)
          /\ pending' = [n \in Nodes |-> {t \in pending[n] : t.nonce # next.nonce}]
    BY <1>4 DEF Mine
  <2>2. \A n \in Nodes : pending'[n] \subseteq pending[n]
    BY <2>1
  <2>3. \A n \in DOMAIN mined' : n \in DOMAIN mined \/ mined'[n] = next
    BY <2>1, MinedNext
  <2>4. \A n \in DOMAIN mined : mined'[n] = mined[n]
    BY <2>1, MinedNext
  <2> QED BY <1>1, <2>1, <2>2, <2>3, <2>4, Zenon DEF Sent
<1> QED BY <1>3, <1>4

\* As long as the orders and lost answers stay, fewer transactions say less.
LEMMA SentShrinks ==
  ASSUME SentInv, \A tx \in Sent' : tx \in Sent,
         UNCHANGED <<payloads, unanswered>>,
         pc' \in {"route", "send"} => pc' = pc \/ (pc = "route" /\ pc' = "send")
  PROVE  SentInv'
<1>1. signal' = signal /\ NoNonce' = NoNonce
  BY DEF signal, NoNonce
<1>2. SentKnown' /\ NonceStays' /\ OneNonce'
  BY <1>1 DEF SentInv, SentKnown, NonceStays, OneNonce
<1>3. NotYetSent'
  BY <1>1 DEF SentInv, NotYetSent
<1> QED BY <1>2, <1>3 DEF SentInv

\* A new order has a signal of its own.
LEMMA SentNewOrder ==
  ASSUME Typed, SentInv, NEW side, NEW size, NewOrder(side, size)
  PROVE  SentInv'
<1>1. /\ pc' = "route" /\ UNCHANGED <<pending, mined, unanswered>>
      /\ \E load \in Payloads : payloads' = Append(payloads, load)
  BY DEF NewOrder, chainVars
<1>2. Sent' = Sent
  BY <1>1 DEF Sent, Transactions, Nonces, Nodes
<1>3. PICK load \in Payloads : payloads' = Append(payloads, load)
  BY <1>1
<1>4. payloads \in Seq(Payloads)
  BY DEF Typed
<1>5. /\ payloads' \in Seq(Payloads) /\ Len(payloads') = Len(payloads) + 1
      /\ \A i \in 1..Len(payloads) : payloads'[i] = payloads[i]
  BY <1>3, <1>4, AppendProperties
<1>6. /\ DOMAIN payloads = 1..Len(payloads) /\ Len(payloads) \in Nat
      /\ DOMAIN payloads' = 1..Len(payloads')
  BY <1>4, <1>5, LenProperties
<1>7. /\ DOMAIN payloads \subseteq DOMAIN payloads' /\ signal' \notin DOMAIN payloads
      /\ \A i \in DOMAIN payloads : payloads'[i] = payloads[i]
  BY <1>5, <1>6 DEF signal
<1>8. SentKnown' /\ NonceStays'
  BY <1>1, <1>2, <1>7 DEF SentInv, SentKnown, NonceStays, NoNonce
<1>9. OneNonce'
  BY <1>1, <1>2 DEF SentInv, OneNonce
<1>10. NotYetSent'
  BY <1>1, <1>2, <1>7 DEF SentInv, SentKnown, NotYetSent
<1> QED BY <1>8, <1>9, <1>10 DEF SentInv

\* A transaction of the signal that is being sent carries the given nonce, and
\* it is the first one unless an answer was lost.
LEMMA SentAccept ==
  ASSUME Typed, SentInv, Accept, unanswered \subseteq unanswered',
         unanswered' \subseteq unanswered \cup {signal},
         signal \in unanswered' \/ pc' \notin {"route", "send"},
         pc' # "route"
  PROVE  SentInv'
<1> DEFINE new == Tx(current)
<1>1. /\ \A tx \in Sent' : tx \in Sent \/ tx = new
      /\ signal \in DOMAIN payloads /\ payloads' = payloads /\ pc = "send"
  BY AcceptSends, AcceptTyped DEF Accept
<1>2. new.signal = signal /\ (payloads[signal] # NoNonce => new.nonce = payloads[signal])
  BY DEF Tx, NonceFor, payload
<1> HIDE DEF new
<1>3. signal' = signal /\ NoNonce' = NoNonce
  BY <1>1 DEF signal, NoNonce
<1>4. SentKnown'
  BY <1>1, <1>2, <1>3 DEF SentInv, SentKnown
<1>5. NonceStays'
  BY <1>1, <1>2, <1>3 DEF SentInv, NonceStays
<1>6. signal \notin unanswered => \A tx \in Sent : tx.signal # signal
  BY <1>1 DEF SentInv, NotYetSent
<1>7. OneNonce'
  BY <1>1, <1>2, <1>6 DEF SentInv, OneNonce
<1>8. NotYetSent'
  BY <1>1, <1>3 DEF NotYetSent
<1> QED BY <1>4, <1>5, <1>7, <1>8 DEF SentInv

LEMMA SentStep == Typed /\ SentInv /\ [Next]_vars => SentInv'
<1> SUFFICES ASSUME Typed, SentInv, [Next]_vars PROVE SentInv'
  OBVIOUS
<1>1. CASE \E side \in {"buy", "sell"}, size \in Sizes : NewOrder(side, size)
  BY <1>1, SentNewOrder
<1>2. CASE SendAnswered
  <2>1. Accept /\ unanswered' = unanswered /\ pc' \in {"checks", "done"}
    BY <1>2 DEF SendAnswered, Simulated, Approve, Refuse
  <2> QED BY <2>1, SentAccept
<1>3. CASE \E kind \in {"timeout", "rpc_error"} : AnswerLost(kind)
  <2>1. Accept /\ unanswered' = unanswered \cup {signal} /\ pc' \in {"send", "done"}
    BY <1>3 DEF AnswerLost, NextAttempt, Refuse, Accept
  <2> QED BY <2>1, SentAccept
<1>4. CASE \E a, b \in Nodes : Gossip(a, b) \/ Mine(a)
  <2>1. PICK a \in Nodes, b \in Nodes : Gossip(a, b) \/ Mine(a)
    BY <1>4
  <2>2. UNCHANGED <<pc, payloads, unanswered>>
    BY <2>1 DEF Gossip, Mine
  <2> QED BY <2>1, <2>2, ChainSends, SentShrinks
<1>5. CASE \/ RouterRefuses \/ RoutedWithoutSend \/ StartSend
           \/ \E kind \in {"timeout", "rpc_error"} : SendFails(kind)
           \/ SendRejected \/ ChecksRefuse \/ ChecksPass
           \/ \E size \in 1..MaxTrade : Fill(size)
           \/ NoFill \/ EndTick \/ UNCHANGED vars
  <2>1. UNCHANGED <<pending, mined, payloads, unanswered>>
    BY <1>5 DEF RouterRefuses, RoutedWithoutSend, StartSend, SendFails,
      SendRejected, ChecksRefuse, ChecksPass, Fill, NoFill, EndTick, vars, chainVars
  <2>2. Sent' = Sent
    BY <2>1 DEF Sent, Transactions, Nonces, Nodes
  <2>3. pc' \in {"route", "send"} => pc' = pc \/ (pc = "route" /\ pc' = "send")
    BY <1>5 DEF RouterRefuses, RoutedWithoutSend, Simulated, Approve, Refuse,
      StartSend, SendFails, SendRejected, NextAttempt, ChecksRefuse, ChecksPass,
      Fill, NoFill, EndTick, vars
  <2> QED BY <2>1, <2>2, <2>3, SentShrinks
<1>6. AllRouted => UNCHANGED vars
  BY DEF AllRouted
<1> QED BY <1>1, <1>2, <1>3, <1>4, <1>5, <1>6 DEF Next

\* The inductive invariant of routing.
THEOREM RoutingSound == Spec => []RoutingInv
<1>1. Init => RoutingInv
  <2> SUFFICES ASSUME Init PROVE RoutingInv
    OBVIOUS
  <2>1. Typed
    BY TypedInit
  <2>2. SendGuarded /\ PublicOnlyWhenSafe
    BY DEF Init, SendGuarded, PublicOnlyWhenSafe
  <2>3. Sent = {} /\ unanswered = {} /\ pc = "idle"
    <3>1. /\ mined = <<>> /\ pending = [n \in Nodes |-> {}]
          /\ unanswered = {} /\ pc = "idle"
      BY DEF Init
    <3>2. DOMAIN mined = {}
      BY <3>1
    <3> QED BY <3>1, <3>2 DEF Sent
  <2>4. SentInv
    BY <2>3 DEF SentInv, SentKnown, NonceStays, OneNonce, NotYetSent
  <2> QED BY <2>1, <2>2, <2>4 DEF RoutingInv
<1>2. RoutingInv /\ [Next]_vars => RoutingInv'
  BY TypedStep, SendGuardedStep, PublicStep, SentStep DEF RoutingInv
<1> QED BY <1>1, <1>2, PTL DEF Spec

\* Two transactions of a signal on the chain have two nonces.
LEMMA TwoNonces ==
  ASSUME Typed, SentInv, NEW s \in DOMAIN payloads, Cardinality(SentBy(s)) > 1
  PROVE  s \in unanswered /\ payloads[s] = NoNonce
<1>1. mined \in Seq(Transactions) /\ \A n \in DOMAIN mined : mined[n].nonce = n
  BY DEF Typed, TypeOK
<1>2. DOMAIN mined = 1..Len(mined) /\ Len(mined) \in Nat
  BY <1>1, LenProperties
<1>3. IsFiniteSet(SentBy(s))
  <2>1. IsFiniteSet(1..Len(mined))
    BY <1>2, FS_Interval
  <2> QED BY <1>2, <2>1, FS_Subset DEF SentBy
<1>4. PICK a \in SentBy(s), b \in SentBy(s) : a # b
  <2>1. SUFFICES ASSUME \A a, b \in SentBy(s) : a = b PROVE FALSE
    OBVIOUS
  <2>2. CASE SentBy(s) = {}
    <3>1. Cardinality(SentBy(s)) = 0
      BY <2>2, FS_EmptySet
    <3> QED BY <3>1
  <2>3. CASE SentBy(s) # {}
    <3>1. PICK a \in SentBy(s) : SentBy(s) = {a}
      BY <2>1, <2>3
    <3>2. Cardinality(SentBy(s)) = 1
      BY <3>1, FS_Singleton
    <3> QED BY <3>2
  <2> QED BY <2>2, <2>3
<1>5. /\ mined[a] \in Transactions /\ mined[b] \in Transactions
      /\ a \in DOMAIN mined /\ b \in DOMAIN mined
      /\ mined[a].signal = s /\ mined[b].signal = s
  BY <1>1, <1>2, <1>4, ElementOfSeq DEF SentBy
<1>6. mined[a] \in Sent /\ mined[b] \in Sent
  BY <1>5 DEF Sent
<1>7. mined[a].nonce # mined[b].nonce
  BY <1>1, <1>4, <1>5
<1> QED BY <1>5, <1>6, <1>7 DEF SentInv, OneNonce, NonceStays

\* A signal reaches the chain twice only if an answer to one of its sends was
\* lost and the payload had no nonce of its own: the retries of a send are safe
\* whenever the nonce is given, for any number of endpoints and retries.
THEOREM TwiceOnlyAfterLoss == Spec => []TwiceOnlyAfterLostAnswer
<1>1. RoutingInv => TwiceOnlyAfterLostAnswer
  BY TwoNonces DEF RoutingInv, TwiceOnlyAfterLostAnswer
<1> QED BY <1>1, RoutingSound, PTL

-----------------------------------------------------------------------------
(* What an approval says *)

\* There is at least one slice.
LEMMA SliceBound ==
  ASSUME NEW size \in Nat, policy \in Policies
  PROVE  SliceCount(size, policy) \in Nat \ {0}
<1>1. policy.maxSwap \in Int /\ policy.sliceMax \in Int
  BY DEF Policies
<1> DEFINE swap == Max({policy.maxSwap, 1})
           count == CeilDiv(size, swap)
           most == Max({policy.sliceMax, 1})
           least == Max({count, 2})
<1>2. swap \in Nat \ {0} /\ most \in Nat \ {0}
  BY <1>1, LargerOfTwo
<1>3. count \in Int
  <2> HIDE DEF swap
  <2> QED BY <1>2 DEF CeilDiv
<1>4. least \in Nat \ {0}
  <2> HIDE DEF count
  <2> QED BY <1>3, LargerOfTwo
<1>5. Min({least, most}) \in Nat \ {0}
  <2> HIDE DEF least, most
  <2> QED BY <1>2, <1>4, SmallerOfTwo
<1> QED BY <1>5 DEF SliceCount

\* What the simulation expects of a private trade is within the limit that the
\* guard has checked, if the limit is not below the guard's own floor.
LEMMA PrivateSimulates ==
  ASSUME Typed, Guarded, policy.maxSlippage >= 2
  PROVE  SimulationSucceeds("private_tx", risk, policy, order.size)
<1> DEFINE limit == policy.maxSlippage
           slip == risk.slippage
           k == SliceCount(order.size, policy)
           share == Max({100 - 8 * (k - 1), 72})
<1>1. limit \in Nat /\ slip \in Nat /\ order.size \in Nat /\ policy \in Policies
  <2>1. policy.maxSlippage \in Int /\ risk.slippage \in Nat /\ policy \in Policies
    BY DEF Typed, TypeOK, Policies, Risk
  <2>2. order.size \in Nat
    BY Amounts DEF Typed, TypeOK
  <2> QED BY <2>1, <2>2
<1>2. slip <= limit
  <2>1. slip <= Max({2, limit})
    BY DEF Guarded, SlippageValid
  <2>2. Max({2, limit}) = limit
    BY <1>1, LargerOfTwo
  <2> QED BY <2>1, <2>2
<1>3. k \in Nat \ {0}
  BY <1>1, SliceBound
<1>4. share \in Nat /\ share <= 100
  <2> HIDE DEF k
  <2> QED BY <1>3, LargerOfTwo
<1>5. Realized("private_tx", risk, policy, order.size) = slip * 75 * share * 10000
  BY DEF Realized, Multiplier
<1> HIDE DEF limit, slip, share, k
<1>6. slip * 75 * share * 10000 <= limit * 100000000
  <2> DEFINE a == slip * 75
  <2>1. a \in Nat /\ a * share <= a * 100
    <3>1. a \in Nat
      BY <1>1
    <3> HIDE DEF a
    <3> QED BY <1>4, <3>1, Product
  <2>2. a * share \in Nat
    <3> HIDE DEF a
    <3> QED BY <1>4, <2>1
  <2>3. a * 100 <= 7500 * limit
    BY <1>1, <1>2
  <2> DEFINE p == a * share
  <2>4. p \in Nat /\ p <= 7500 * limit
    <3> HIDE DEF a
    <3> QED BY <1>1, <2>1, <2>2, <2>3
  <2>5. slip * 75 * share * 10000 = p * 10000
    OBVIOUS
  <2> HIDE DEF p
  <2> QED BY <1>1, <2>4, <2>5
<1> QED BY <1>5, <1>6 DEF SimulationSucceeds, limit

\* A send that a node has confirmed is approved, in full, under every policy that
\* does not allow less slippage than the guard before it asks for.
THEOREM ConfirmedIsApproved == Spec => SentIsApproved
<1>1. ASSUME RoutingInv, SendAnswered, policy.maxSlippage >= 2
      PROVE  approved' = order.size
  <2>1. Guarded /\ Typed
    BY <1>1 DEF RoutingInv, SendGuarded, SendAnswered, Accept
  <2>2. SimulationSucceeds("private_tx", risk, policy, order.size)
    BY <1>1, <2>1, PrivateSimulates
  <2> QED BY <1>1, <2>2 DEF SendAnswered, Simulated, Approve
<1>2. RoutingInv /\ [Next]_vars =>
        [SendAnswered /\ policy.maxSlippage >= 2 => approved' = order.size]_vars
  BY <1>1
<1> QED BY <1>2, RoutingSound, PTL DEF Spec, SentIsApproved

\* What is approved after a send is at a node: no failure of the last attempt is
\* taken for a success.
THEOREM ApprovalIsOfSent == Spec => ApprovedIsSent
<1>1. ASSUME RoutingInv, [Next]_vars, pc = "send", pc' = "checks"
      PROVE  Known(signal)'
  <2>1. SendAnswered
    BY <1>1 DEF Next, NewOrder, RouterRefuses, RoutedWithoutSend, StartSend,
      SendFails, SendRejected, AnswerLost, NextAttempt, Refuse, Gossip, Mine,
      ChecksRefuse, ChecksPass, Fill, NoFill, EndTick, AllRouted, vars
  <2>2. Accept /\ Typed
    BY <1>1, <2>1 DEF SendAnswered, RoutingInv
  <2>3. Tx(current) \in pending'[current] /\ current \in Nodes /\ payloads' = payloads
    BY <2>2, AcceptTyped DEF Typed, TypeOK, Accept
  <2>4. Tx(current).signal = signal
    BY DEF Tx
  <2> QED BY <2>3, <2>4 DEF Known, signal, Nodes
<1>2. RoutingInv /\ [Next]_vars =>
        [pc = "send" /\ pc' = "checks" => Known(signal)']_vars
  BY <1>1
<1> QED BY <1>2, RoutingSound, PTL DEF Spec, ApprovedIsSent
=============================================================================
