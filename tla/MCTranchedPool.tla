--------------------------- MODULE MCTranchedPool ---------------------------
(* Instances of TranchedPool for TLC. *)
EXTENDS TranchedPoolProperties, CreditLineProperties

\* A unit accrues a unit of interest each tick: no accrual rounds to zero.
PoolTerms ==
    {[interestApr |-> 1, lateFeeApr |-> 0, paymentPeriod |-> 1,
      term |-> 2, principalGracePeriod |-> 2]}

\* Also a longer period than the grace, with a late fee.
PoolTermsBoth ==
    PoolTerms \cup
        {[interestApr |-> 1, lateFeeApr |-> 1, paymentPeriod |-> 2,
          term |-> 3, principalGracePeriod |-> 2]}

\* The term does not end within the bounds, so what is repaid can be drawn again.
LongTerms ==
    {[interestApr |-> 1, lateFeeApr |-> 0, paymentPeriod |-> 1,
      term |-> 4, principalGracePeriod |-> 2]}

\* Any limit the pool may compute.
AllLimits == 0..12
=============================================================================
