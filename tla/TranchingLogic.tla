--------------------------- MODULE TranchingLogic ---------------------------
(***************************************************************************)
(* The library contract TranchingLogic.sol: the payments waterfall.  A     *)
(* pool has slices, a slice a senior and a junior tranche.  A tranche has  *)
(* two share prices, the USDC that one USDC of deposit is entitled to, as  *)
(* principal and as interest, in units of 1/FP_SCALING_FACTOR.  A payment  *)
(* raises the prices, senior tranches first.  Every division rounds down.  *)
(***************************************************************************)
EXTENDS Integers, Functions

CONSTANTS
    FP_SCALING_FACTOR,   \* 1 as a fixed point number (1e18 in the contract)
    ReserveFeePercent,   \* 100 / GoldfinchConfig's reserve denominator
    JuniorFeePercent     \* the pool's juniorFeePercent

ASSUME TranchingAssumption ==
    /\ FP_SCALING_FACTOR \in Nat \ {0}
    /\ ReserveFeePercent \in Nat /\ JuniorFeePercent \in Nat
    /\ ReserveFeePercent + JuniorFeePercent <= 100

Kinds == {"senior", "junior"}

TrancheType ==
    [principalSharePrice : Nat, interestSharePrice : Nat,
     principalDeposited : Nat, lockedUntil : Nat]

SliceType ==
    [senior : TrancheType, junior : TrancheType,
     totalInterestAccrued : Nat, principalDeployed : Nat]

NewTranche ==
    [principalSharePrice |-> FP_SCALING_FACTOR, interestSharePrice |-> 0,
     principalDeposited |-> 0, lockedUntil |-> 0]

NewSlice ==
    [senior |-> NewTranche, junior |-> NewTranche,
     totalInterestAccrued |-> 0, principalDeployed |-> 0]

Deposited(slice) ==
    slice.senior.principalDeposited + slice.junior.principalDeposited

\* The sum over the slices of a quantity given for each index.
SumOfSlices(slices, quantity(_)) == SumFunction([i \in DOMAIN slices |-> quantity(i)])

-----------------------------------------------------------------------------

usdcToSharePrice(amount, totalShares) ==
    IF totalShares = 0 THEN 0 ELSE (amount * FP_SCALING_FACTOR) \div totalShares

sharePriceToUsdc(sharePrice, totalShares) ==
    (sharePrice * totalShares) \div FP_SCALING_FACTOR

\* Reverts, and is not to be used, when total is 0.
scaleByFraction(amount, fraction, total) ==
    (((fraction * FP_SCALING_FACTOR) \div total) * amount) \div FP_SCALING_FACTOR

\* The share price at which a tranche has its part of an amount for its slice.
calculateExpectedSharePrice(tranche, amount, slice) ==
    scaleByFraction(usdcToSharePrice(amount, tranche.principalDeposited),
                    tranche.principalDeposited, Deposited(slice))

\* What the tranche has received, or has still in the pool, by its share prices.
Entitlement(tranche) ==
    sharePriceToUsdc(tranche.principalSharePrice, tranche.principalDeposited)
      + sharePriceToUsdc(tranche.interestSharePrice, tranche.principalDeposited)

-----------------------------------------------------------------------------
(* Applying money to one tranche.                                          *)

\* Up to `desired` of `amount` goes into the price.
applyToSharePrice(amount, price, desired, totalShares) ==
    LET applied == IF amount < desired THEN amount ELSE desired
    IN  [remaining |-> amount - applied,
         price     |-> price + usdcToSharePrice(applied, totalShares)]

applyByAmount(tranche, interest, principal, desiredInterest, desiredPrincipal) ==
    LET i == applyToSharePrice(interest, tranche.interestSharePrice,
                               desiredInterest, tranche.principalDeposited)
        p == applyToSharePrice(principal, tranche.principalSharePrice,
                               desiredPrincipal, tranche.principalDeposited)
    IN  [tranche   |-> [tranche EXCEPT !.interestSharePrice = i.price,
                                       !.principalSharePrice = p.price],
         interest  |-> i.remaining,
         principal |-> p.remaining]

desiredAmountFromSharePrice(desired, actual, totalShares) ==
    IF desired < actual THEN 0 ELSE sharePriceToUsdc(desired - actual, totalShares)

applyBySharePrice(tranche, interest, principal, interestPrice, principalPrice) ==
    applyByAmount(tranche, interest, principal,
        desiredAmountFromSharePrice(interestPrice, tranche.interestSharePrice,
                                    tranche.principalDeposited),
        desiredAmountFromSharePrice(principalPrice, tranche.principalSharePrice,
                                    tranche.principalDeposited))

-----------------------------------------------------------------------------
(* One slice.                                                              *)

\* Variant: what was drawn down is not taken off.
DepositsAndReturned(slice, returned, totalDeployed) ==
    Deposited(slice) + scaleByFraction(returned, slice.principalDeployed, totalDeployed)

\* The principal of the slice that is not at work: what was never drawn down,
\* and its part of `returned`, the principal that is due or already repaid.
SlicePrincipalAccrued(slice, returned, totalDeployed) ==
    Deposited(slice) - slice.principalDeployed
      + scaleByFraction(returned, slice.principalDeployed, totalDeployed)

\* Variants: the senior tranche lets all principal pass; the reserve's fee is taken
\* and given to the tranche as well.
PrincipalToJuniorFirst(slice, interest, principal, principalAccrued) ==
    LET reserve == scaleByFraction(interest, ReserveFeePercent, 100)
        netInterestPrice ==
            scaleByFraction(
                calculateExpectedSharePrice(slice.senior, slice.totalInterestAccrued, slice),
                100 - (JuniorFeePercent + ReserveFeePercent), 100)
    IN  [reserve |-> reserve,
         applied |-> applyBySharePrice(slice.senior, interest - reserve, principal,
                        netInterestPrice, slice.senior.principalSharePrice)]
FeeNotDeducted(slice, interest, principal, principalAccrued) ==
    LET reserve == scaleByFraction(interest, ReserveFeePercent, 100)
    IN  [reserve |-> reserve,
         applied |-> applyBySharePrice(slice.senior, interest, principal,
                        calculateExpectedSharePrice(slice.senior, slice.totalInterestAccrued, slice),
                        calculateExpectedSharePrice(slice.senior, principalAccrued, slice))]

\* The senior tranche gets its interest, less the junior and the reserve fee,
\* and its principal.
applyToSeniorTranche(slice, interest, principal, principalAccrued) ==
    LET reserve == scaleByFraction(interest, ReserveFeePercent, 100)
        netInterestPrice ==
            scaleByFraction(
                calculateExpectedSharePrice(slice.senior, slice.totalInterestAccrued, slice),
                100 - (JuniorFeePercent + ReserveFeePercent), 100)
    IN  [reserve |-> reserve,
         applied |-> applyBySharePrice(slice.senior, interest - reserve, principal,
                        netInterestPrice,
                        calculateExpectedSharePrice(slice.senior, principalAccrued, slice))]

\* The junior tranche gets its principal and all the rest, as interest; the
\* reserve takes its fee from principal that became interest.
applyToJuniorTranche(slice, interest, principal, principalAccrued) ==
    LET junior  == slice.junior
        first   == applyBySharePrice(junior, interest, principal,
                      junior.interestSharePrice
                        + usdcToSharePrice(interest, junior.principalDeposited),
                      calculateExpectedSharePrice(junior, principalAccrued, slice))
        reserve == scaleByFraction(first.principal, ReserveFeePercent, 100)
        rest    == first.interest + first.principal - reserve
    IN  [reserve |-> reserve,
         applied |-> applyByAmount(first.tranche, rest, 0, rest, 0)]

-----------------------------------------------------------------------------
(* All slices: the senior tranches of all of them, then the junior ones.   *)

\* None of the divisions and subtractions below reverts.
CanApply(slices, totalDeployed, balance) ==
    /\ totalDeployed > 0
    /\ totalDeployed >= balance
    /\ \A i \in DOMAIN slices :
          /\ Deposited(slices[i]) > 0
          /\ slices[i].principalDeployed <= Deposited(slices[i])

applyToAllSlices(slices, interest, principal, totalDeployed, balance, principalOwed) ==
    LET part(amount, i) ==
            scaleByFraction(amount, slices[i].principalDeployed, totalDeployed)
        accrued(i) ==
            SlicePrincipalAccrued(slices[i], totalDeployed - balance + principalOwed,
                                  totalDeployed)
        senior == [i \in DOMAIN slices |->
            applyToSeniorTranche(slices[i], part(interest, i), part(principal, i),
                                 accrued(i))]
        interestLeft  == SumOfSlices(slices, LAMBDA i : senior[i].applied.interest)
        principalLeft == SumOfSlices(slices, LAMBDA i : senior[i].applied.principal)
        junior == [i \in DOMAIN slices |->
            applyToJuniorTranche(slices[i], part(interestLeft, i),
                                 part(principalLeft, i), accrued(i))]
    IN  [slices  |-> [i \in DOMAIN slices |->
                        [slices[i] EXCEPT !.senior = senior[i].applied.tranche,
                                          !.junior = junior[i].applied.tranche]],
         reserve |-> SumOfSlices(slices, LAMBDA i : senior[i].reserve + junior[i].reserve)]
=============================================================================
