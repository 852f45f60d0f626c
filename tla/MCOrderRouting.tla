--------------------------- MODULE MCOrderRouting ---------------------------
(* Policies, risks and nodes for model checking OrderRouting. *)
EXTENDS OrderRouting

MCUrls == <<"first", "second">>

Base ==
  [allowPrivate |-> TRUE, allowPublic |-> TRUE, allowCow |-> TRUE,
   cowSupported |-> FALSE, cowMin |-> 2, preferred |-> "",
   publicMaxRisk |-> 40, blockRisk |-> 70,
   maxQuoteDev |-> 0, maxTwapDev |-> 0, maxImpact |-> 4, maxSlippage |-> 4,
   maxGas |-> 0, slicing |-> TRUE, maxSwap |-> 1, sliceMax |-> 4]

\* Limits at their defaults; one with more risk allowed than the engine's own
\* limits; public preferred; slippage below the floor of the guard; no private.
MCPolicyLayers ==
  { <<Base>>,
    <<Base, [publicMaxRisk |-> 55, blockRisk |-> 30]>>,
    <<Base, [preferred |-> "guarded_public"]>>,
    <<Base, [maxSlippage |-> 40], [maxSlippage |-> 1]>>,
    <<Base, [allowPrivate |-> FALSE, preferred |-> "private_tx"]>> }

\* Values on either side of every limit, one or two measures at a time.
Calm == [quoteDev |-> 0, twapDev |-> 0, slippage |-> 1, impact |-> 1, score |-> 10,
         sandwich |-> 0, gas |-> 0, gasShare |-> 0, exempt |-> FALSE]
MCRisks ==
  { [Calm EXCEPT !.score = score, !.sandwich = sandwich, !.slippage = slippage] :
      score \in {10, 40, 71}, sandwich \in {0, 56}, slippage \in {1, 2, 4} }
  \cup
  { Calm, [Calm EXCEPT !.quoteDev = 1], [Calm EXCEPT !.twapDev = 1],
    [Calm EXCEPT !.impact = 5], [Calm EXCEPT !.slippage = 5], [Calm EXCEPT !.gas = 1],
    [Calm EXCEPT !.gasShare = 60], [Calm EXCEPT !.gasShare = 60, !.exempt = TRUE] }

\* Calm markets, for questions in which the guards play no part.
MCCalm == {Calm}
MCBalanced == {<<Base>>}
==============================================================================
