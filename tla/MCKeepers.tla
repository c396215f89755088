----------------------------- MODULE MCKeepers -----------------------------
(* Instances of Keepers for TLC. *)
EXTENDS KeepersProperties

\* A unit accrues a unit of interest each tick: no accrual rounds to zero.
KeptTerms ==
    {[interestApr |-> 1, lateFeeApr |-> 0, paymentPeriod |-> 1,
      term |-> 2, principalGracePeriod |-> 2]}

AllLimits == 0..4
=============================================================================
