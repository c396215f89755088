------------------------- MODULE KeepersProperties -------------------------
(* What the autotasks promise of a pool.                                      *)
EXTENDS Keepers

\* "The senior pool was inadvertantly withdrawn by an older version of this script":
\* no run of the redeemer, though tranches are locked and paid between its reads and
\* its transactions, takes back what the senior pool has deposited in a slice.
InvestmentStays ==
    [][Redeemer => \A i \in DOMAIN slices :
          slices'[i].senior.principalDeposited = slices[i].senior.principalDeposited]_allVars

\* A period of an open line is over and its interest, or the principal at the end
\* of the term, is not charged yet.
AssessmentDue ==
    /\ ~paused /\ currentLimit > 0
    /\ balance > 0
    /\ now >= nextDueTime
    /\ interestAccruedAsOf < TimeToAssess

\* Whatever falls due is charged in the end, though no borrower pays and no other
\* pool's assessment succeeds.
DueIsAssessed == AssessmentDue ~> ~AssessmentDue

\* The senior pool has something to redeem, and the pool has the USDC.
RedemptionDue(id) ==
    /\ id \in SeniorTokens
    /\ LockedTranche(id)
    /\ CanRedeem(id)

\* What the waterfall gives to a token of the senior pool reaches the senior pool,
\* whatever the other tokens' redemptions do.
SeniorIsRedeemed == \A id \in 1..MaxTokens : RedemptionDue(id) ~> ~RedemptionDue(id)
=============================================================================
