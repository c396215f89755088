----------------------- MODULE TranchedPoolProperties -----------------------
(***************************************************************************)
(* What is asked of TranchedPool with its credit line, its tokens and the  *)
(* waterfall.                                                              *)
(***************************************************************************)
EXTENDS TranchedPool

TokenType ==
    [tranche : (DOMAIN slices) \X Kinds, principalAmount : Nat,
     principalRedeemed : Nat, interestRedeemed : Nat]

LedgerOk ==
    /\ slices \in Seq(SliceType)
    /\ Len(slices) \in 1..MaxSlices
    /\ totalDeployed \in Nat /\ cash \in Nat /\ redeemed \in Nat /\ swept \in Nat

SwitchesOk ==
    /\ fundableAt \in FundableTimes
    /\ paused \in BOOLEAN /\ drawdownsPaused \in BOOLEAN

TokensOk ==
    /\ lastTokenId \in Nat /\ totalMinted \in Nat /\ totalPrincipalRedeemed \in Nat
    /\ DOMAIN tokens \subseteq 1..lastTokenId
    /\ \A id \in DOMAIN tokens : tokens[id] \in TokenType

\* Type invariant: amounts, prices and times are uint256s; a live token has an id
\* that was given out, and stands for a deposit in a tranche that exists.
PoolTypeOK == LedgerOk /\ SwitchesOk /\ TokensOk

-----------------------------------------------------------------------------
(* Invariants                                                              *)

\* What the slices count together.
DeployedIn(pool) == SumOfSlices(pool, LAMBDA i : pool[i].principalDeployed)
DepositedIn(pool) == SumOfSlices(pool, LAMBDA i : Deposited(pool[i]))
EntitledIn(pool) ==
    SumOfSlices(pool, LAMBDA i : Entitlement(pool[i].senior) + Entitlement(pool[i].junior))

\* All that the share prices say the depositors have, drawn down or not, less
\* what they redeemed, is in the pool: no rounding of the waterfall, of a draw
\* or of the fees, and no order of payments, draws and withdrawals, promises
\* USDC that is not there (an emergency shutdown, of course, takes it away).
EntitlementsFunded == EntitledIn(slices) <= cash + redeemed + swept

\* The principal that the slices count as deployed is the pool's total; it is
\* never less than what the line says is borrowed, for getTotalInterestAndPrincipal
\* subtracts one from the other and no payment could be applied any more.  With
\* one slice there is nothing to round, and it is exactly what is borrowed.
DeploymentCoversLoan ==
    /\ totalDeployed = DeployedIn(slices)
    /\ totalDeployed >= balance
    /\ Len(slices) = 1 => totalDeployed = balance

\* A loan can be repaid: while something is borrowed, no subtraction or division of
\* assess, of the waterfall or of _assess fails, so that a payment of any amount is
\* applied; as long as no repayment to several slices has lost a part to rounding.
\* (A slice without deposits is the exception, see LockedSlicesFunded.)
PaymentsApplied ==
    balance > 0 /\ (\A i \in DOMAIN slices : Deposited(slices[i]) > 0) =>
        /\ \A payment \in usdc..MaxUsdc : CanAssess(payment)
        /\ totalDeployed = balance => CanApply(slices, totalDeployed, balance)

\* The inductive invariant behind it: until the end of the term a slice's share prices
\* are not worth more than what was deposited in it and is not deployed, and after it
\* nothing is drawn any more.
SliceCovered(slice, isBeforeEnd) ==
    /\ slice.principalDeployed <= Deposited(slice)
    /\ isBeforeEnd =>
          \A kind \in Kinds :
              slice[kind].principalSharePrice * Deposited(slice)
                <= FP_SCALING_FACTOR * (Deposited(slice) - slice.principalDeployed)

SlicesCovered ==
    totalDeployed = balance =>
        \A i \in DOMAIN slices :
            SliceCovered(slices[i], termEndTime = 0 \/ now < termEndTime)

\* "Then principal accrued should start at 10K (total deposited - principal deployed)"
\* (getTotalInterestAndPrincipal): no more is deployed than was deposited.
DeployedWithinDeposits ==
    \A i \in DOMAIN slices : slices[i].principalDeployed <= Deposited(slices[i])

\* What PoolTokens has minted and not taken back is what the tranches count as
\* deposited, so that "cannot redeem more than we minted" bounds what it should.
DepositsMatchTokens ==
    totalMinted = DepositedIn(slices)

\* No tranche is worth more principal than was deposited in it, so that the limits
\* PoolTokens.redeem puts on a token never refuse what the pool allows.
NoTrancheAbovePar ==
    \A i \in DOMAIN slices, kind \in Kinds :
        slices[i][kind].principalSharePrice <= FP_SCALING_FACTOR

\* The principal of the live tokens of a tranche.
PrincipalIn(live, tranche) ==
    SumFunctionOnSet([id \in DOMAIN live |-> live[id].principalAmount],
                     {id \in DOMAIN live : live[id].tranche = tranche})

\* A deposit that is still in its tranche is still in the pool: while the senior
\* tranche of a slice is open, nothing was drawn from the slice or paid to it, and
\* both tranches are at par.
AtPar(slice) ==
    /\ slice.principalDeployed = 0
    /\ \A kind \in Kinds :
          /\ slice[kind].principalSharePrice = FP_SCALING_FACTOR
          /\ slice[kind].interestSharePrice = 0

\* Slices are opened one after the other, and a slice's junior tranche is locked
\* before its senior tranche.
InOrder(slice, isLast) ==
    /\ isLocked(slice) => slice.junior.lockedUntil > 0
    /\ ~isLocked(slice) => isLast /\ AtPar(slice)

\* The inductive invariant behind PoolTypeOK and LockedOnce: subtracting a withdrawn
\* deposit or a repaid part never goes below zero.
PoolInv ==
    /\ PoolTypeOK
    /\ maxLimit \in Limits
    /\ \A i \in DOMAIN slices : InOrder(slices[i], i = Len(slices))
    /\ \A i \in DOMAIN slices, kind \in Kinds :
          PrincipalIn(tokens, <<i, kind>>) <= slices[i][kind].principalDeposited
    /\ totalDeployed = DeployedIn(slices)

\* The inductive invariant behind EntitlementsFunded, DepositsMatchTokens and
\* DeploymentCoversLoan: an open slice is worth what was deposited in it.
AccountsInv ==
    /\ PoolInv
    /\ DepositsMatchTokens
    /\ EntitlementsFunded
    /\ DeploymentCoversLoan

\* What the price of a slice's senior tranche may lack by rounding: the price of one
\* unit of USDC, for what is wanted is a whole number of units, the fraction that the
\* tranche's part of the slice is rounded down to, and the three divisions that follow.
RoundingOfSenior(slice) ==
    (FP_SCALING_FACTOR + Deposited(slice)) \div slice.senior.principalDeposited + 3

SeniorFirstIn(slice) ==
    isLocked(slice) /\ slice.senior.principalDeposited > 0
            /\ slice.junior.principalDeposited > 0 =>
        slice.junior.principalSharePrice
          <= slice.senior.principalSharePrice + RoundingOfSenior(slice)

\* Senior before junior: in a pool with one slice the junior tranche never has more
\* of its principal back than the senior tranche, but for rounding, however short the
\* payments are at the end of the term.
SeniorFirst == Len(slices) = 1 => SeniorFirstIn(slices[1])

\* "When there is a shortfall [it] distributes the payment across all senior tranches
\* first before junior" (the tests of the pool): the same of each of several slices.
SeniorFirstInEverySlice == \A i \in DOMAIN slices : SeniorFirstIn(slices[i])

\* "Beyond the drawdown period, any unused capital is available to withdraw by all
\* depositors" (lockPool): what a token may redeem can be computed, and all of it
\* together is in the pool.
UnusedCapitalWithdrawable ==
    swept = 0 =>
        /\ \A id \in DOMAIN tokens : CanCompute(id)
        /\ SumFunction([id \in DOMAIN tokens |-> Redeemable(id)]) <= cash

\* A pool that is locked can take payments: it "also causes issues trying to
\* allocate payments to an empty slice (divide by zero)" (_assess), which is why
\* only a locked pool is assessed.
LockedSlicesFunded ==
    \A i \in DOMAIN slices : isLocked(slices[i]) => Deposited(slices[i]) > 0

\* "Split the interest accrued proportionally across slices so we know how much
\* interest goes to each slice" (_assess): with one slice, all that the line has
\* accrued is the slice's.
InterestSplitAcrossSlices ==
    Len(slices) = 1 => slices[1].totalInterestAccrued >= totalInterestAccrued

-----------------------------------------------------------------------------
(* Action property                                                         *)

\* "Allow locking the pool only once" (_lockPool): once the senior tranche of a
\* slice is locked, neither the end of the lock nor the deposits of the slice
\* change, whatever is opened, drawn, paid or withdrawn.
LockedOnce ==
    [][\A i \in DOMAIN slices : isLocked(slices[i]) =>
          \A kind \in Kinds :
              /\ slices'[i][kind].lockedUntil = slices[i][kind].lockedUntil
              /\ slices'[i][kind].principalDeposited = slices[i][kind].principalDeposited
      ]_<<clVars, poolVars>>
=============================================================================
