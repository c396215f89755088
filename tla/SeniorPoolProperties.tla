------------------------ MODULE SeniorPoolProperties ------------------------
(* What is asked of the senior pool. *)
EXTENDS SeniorPool

\* Type invariant: all of the senior pool's numbers are uint256s, and what is
\* written down is written down in the pool's own record too.
SeniorPoolTypeOK ==
    /\ sharePrice \in Nat /\ fidu \in Nat
    /\ seniorCash \in Nat
    /\ compoundBalance \in Nat /\ onCompound \in Nat /\ credited \in Nat
    /\ totalLoansOutstanding \in Nat
    /\ writedowns \in Nat /\ totalWritedowns = writedowns
    /\ providerCalls \in 0..MaxProviderCalls

Assets == assetsWith(seniorCash, compoundBalance)

\* Fidu's "threshold to handle potential rounding errors" handles nothing else: in
\* whatever order interest is recognised, loans are written down and up, and shares
\* come and go, the shares are worth the assets, less than a dollar apart and never
\* more than there is, so that no mint and no burn is refused as "an asset/liability
\* mismatch".
SharesMatchAssets ==
    LET liabilities == liabilitiesInDollars(fidu, sharePrice)
    IN  Assets \in liabilities..(liabilities + USDC_MANTISSA - 1)

\* What a unit of USDC is worth of a share price's units, for all shares together.
UsdcUnit == FIDU_MANTISSA * (FIDU_MANTISSA \div USDC_MANTISSA)

\* The same step by step, and however many steps there are: what the shares are worth
\* rises and falls as the assets do, but for what the divisions round off. A step may
\* leave the shares short of a unit of USDC, of the price for each share and of a share
\* at the price, and in excess of the last two only: no order of the calls makes the
\* shares worth more or less at anyone's expense.
WorthFollowsAssets ==
    [][LET rounding == fidu + sharePrice'
           moved    == fidu' * sharePrice' - fidu * sharePrice - (Assets' - Assets) * UsdcUnit
       IN  moved \in (-(rounding + UsdcUnit))..rounding
      ]_<<clVars, poolVars, seniorVars>>

\* What the senior pool counts as lent is what its tokens say is still out, also
\* after a deposit was taken back before the lock or unused capital was redeemed
\* before the loan was repaid: redeem never fails to subtract it.
LoansMatchTokens ==
    totalLoansOutstanding =
      SumFunction([id \in Investments |->
                     tokens[id].principalAmount - tokens[id].principalRedeemed])

\* The value returned by the strategy "can be used 'idempotently' to achieve the
\* investment target amount without exceeding that target": however often invest is
\* called, and whatever is deposited and taken out in between, no slice has more
\* senior capital than its junior capital bears.
TargetNotExceeded ==
    \A i \in DOMAIN slices :
        slices[i].senior.principalDeposited
          <= slices[i].junior.principalDeposited * LeverageRatio
=============================================================================
