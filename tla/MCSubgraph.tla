------------------------------ MODULE MCSubgraph ------------------------------
(* Instances of Subgraph for TLC. *)
EXTENDS SubgraphProperties

\* A unit accrues a unit of interest each tick: no accrual rounds to zero.
PoolTerms ==
    {[interestApr |-> 1, lateFeeApr |-> 0, paymentPeriod |-> 1,
      term |-> 2, principalGracePeriod |-> 2]}

\* Any limit the pool may compute.
AllLimits == 0..4

\* A junior wallet is told from another only by what it holds.
Symmetric == Permutations(Backers)
=============================================================================
