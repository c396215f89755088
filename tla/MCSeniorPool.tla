---------------------------- MODULE MCSeniorPool ----------------------------
(* Instances of SeniorPool for TLC. *)
EXTENDS SeniorPoolProperties

\* A unit accrues half a unit of interest each tick.
SeniorTerms ==
    {[interestApr |-> 1, lateFeeApr |-> 0, paymentPeriod |-> 1,
      term |-> 1, principalGracePeriod |-> 1]}

AllLimits == 0..60
=============================================================================
