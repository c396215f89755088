----------------------------- MODULE SeniorPool -----------------------------
(***************************************************************************)
(* SeniorPool.sol with its shares (Fidu.sol), its investment strategy      *)
(* (LeverageRatioStrategy.sol) and the one tranched pool it invests in.    *)
(* Capital providers deposit USDC for FIDU at the share price; idle USDC   *)
(* earns interest on Compound; the rest is lent through the senior tranche *)
(* and comes back when its tokens are redeemed, or is written down when    *)
(* the borrower is late.  Who may call, the pauses and who holds how much  *)
(* FIDU are left out: a caller is any of the holders.                      *)
(***************************************************************************)
EXTENDS TranchedPool

CONSTANTS
    FIDU_MANTISSA,          \* one FIDU, and the unit of the share price (1e18)
    USDC_MANTISSA,          \* one dollar; also ASSET_LIABILITY_MATCH_THRESHOLD (1e6)
    LeverageRatio,          \* GoldfinchConfig's, to the junior tranche
    LatenessMaxDays,        \* GoldfinchConfig's, in ticks
    LPAmounts,              \* USDC that is deposited or withdrawn
    FiduAmounts,            \* FIDU that is withdrawn
    CompoundInterest,       \* interest that Compound credits at once
    CompoundRounding,       \* most USDC that Compound's rounding keeps of what is put in
    KeptShares,             \* bound: FIDU that remains unless all of it is withdrawn
    MaxProviderCalls,       \* bound: deposits and withdrawals of capital providers
    MaxCompoundInterest     \* bound: interest that Compound ever credits

ASSUME SeniorPoolAssumption ==
    /\ FIDU_MANTISSA \in Nat \ {0}
    /\ USDC_MANTISSA \in Nat \ {0}
    /\ FIDU_MANTISSA % USDC_MANTISSA = 0
    /\ ReserveFeePercent > 0
    /\ LeverageRatio \in Nat
    /\ LatenessMaxDays \in Nat \ {0}
    /\ LPAmounts \subseteq Nat \ {0}
    /\ FiduAmounts \subseteq Nat \ {0}
    /\ CompoundInterest \subseteq Nat \ {0}
    /\ CompoundRounding \in Nat
    /\ KeptShares \in Nat
    /\ MaxProviderCalls \in Nat
    /\ MaxCompoundInterest \in Nat

VARIABLES
    sharePrice,
    fidu,                   \* totalSupply of FIDU
    seniorCash,             \* USDC held by the senior pool
    compoundBalance,        \* USDC put on Compound, as the senior pool counts it
    onCompound,             \* USDC that redeeming its cUSDC would give
    totalLoansOutstanding,
    writedowns,             \* of the tranched pool
    totalWritedowns,
    providerCalls,          \* deposits and withdrawals so far, for MaxProviderCalls
    credited                \* what Compound has credited, for MaxCompoundInterest

lpVars     == <<fidu, providerCalls>>
compound   == <<compoundBalance, onCompound, credited>>
loans      == <<totalLoansOutstanding, writedowns, totalWritedowns>>
seniorVars == <<sharePrice, seniorCash, lpVars, compound, loans>>
PoolUnchanged == UNCHANGED <<clVars, poolVars>>

SeniorInit ==
    /\ PoolInit
    /\ sharePrice = FIDU_MANTISSA
    /\ fidu = 0
    /\ seniorCash = 0
    /\ compoundBalance = 0 /\ onCompound = 0 /\ credited = 0
    /\ totalLoansOutstanding = 0
    /\ writedowns = 0 /\ totalWritedowns = 0
    /\ providerCalls = 0

-----------------------------------------------------------------------------
(* Shares and assets                                                       *)

usdcToFidu(amount) == (amount * FIDU_MANTISSA) \div USDC_MANTISSA
fiduToUSDC(amount) == amount \div (FIDU_MANTISSA \div USDC_MANTISSA)

\* getNumShares, and _getUSDCAmountFromShares, at a share price
numShares(amount, price) == (usdcToFidu(amount) * FIDU_MANTISSA) \div price
usdcFromShares(shares, price) == fiduToUSDC((shares * price) \div FIDU_MANTISSA)

\* _usdcToSharePrice: what an amount is for each share. Without shares it reverts.
priceOf(amount) == (usdcToFidu(amount) * FIDU_MANTISSA) \div fidu

\* assets(): what was lent counts until it comes back or is written down.
assetsWith(usdcHeld, onCompoundCounted) ==
    usdcHeld + onCompoundCounted + totalLoansOutstanding - totalWritedowns

liabilitiesInDollars(shares, price) == fiduToUSDC((shares * price) \div FIDU_MANTISSA)

\* canMint and canBurn: the shares there will be match the assets there are.
Matches(shares, price, netAssets) ==
    /\ netAssets >= 0
    /\ liabilitiesInDollars(shares, price) - netAssets <= USDC_MANTISSA

-----------------------------------------------------------------------------
(* Compound                                                                *)

\* Slip of Swept: the reserve's part of the interest raises the price as well.
ReserveCredited ==
    LET interest == onCompound - compoundBalance
    IN  [price |-> sharePrice + priceOf(interest),
         usdc  |-> seniorCash + onCompound - interest \div (100 \div ReserveFeePercent)]

\* What the senior pool holds once it has swept: of the interest earned the reserve
\* takes its part and the rest raises the price.
Swept ==
    LET interest == onCompound - compoundBalance
        reserve  == interest \div (100 \div ReserveFeePercent)
    IN  [price |-> sharePrice + priceOf(interest - reserve),
         usdc  |-> seniorCash + onCompound - reserve]

\* _sweepFromCompound reverts when there are no shares to credit with the interest,
\* or when Compound gives back less than was put in.
CanSweep == fidu > 0 /\ onCompound >= compoundBalance

\* withdraw and invest sweep first, when there is something on Compound.
SweepFirst == compoundBalance > 0
MaySweepFirst == SweepFirst => CanSweep
AfterSweep ==
    IF SweepFirst THEN Swept ELSE [price |-> sharePrice, usdc |-> seniorCash]

NothingOnCompound ==
    compoundBalance' = 0 /\ onCompound' = 0 /\ UNCHANGED credited

SweepToCompound(rounding) ==
    /\ compoundBalance = 0
    /\ seniorCash > 0
    /\ rounding <= seniorCash
    /\ compoundBalance' = seniorCash
    /\ onCompound' = seniorCash - rounding
    /\ seniorCash' = 0
    /\ UNCHANGED <<sharePrice, lpVars, loans, credited>> /\ PoolUnchanged

SweepFromCompound ==
    /\ SweepFirst /\ CanSweep
    /\ sharePrice' = Swept.price
    /\ seniorCash' = Swept.usdc
    /\ NothingOnCompound
    /\ UNCHANGED <<lpVars, loans>> /\ PoolUnchanged

\* Compound's exchange rate rises.
CompoundCredits(interest) ==
    /\ compoundBalance > 0
    /\ credited + interest <= MaxCompoundInterest
    /\ credited' = credited + interest
    /\ onCompound' = onCompound + interest
    /\ UNCHANGED <<sharePrice, seniorCash, lpVars, loans, compoundBalance>> /\ PoolUnchanged

-----------------------------------------------------------------------------
(* Capital providers                                                       *)

\* The USDC is transferred before the shares are minted.
SeniorDeposit(amount) ==
    /\ providerCalls < MaxProviderCalls
    /\ sharePrice > 0
    /\ Matches(fidu + numShares(amount, sharePrice), sharePrice,
               assetsWith(seniorCash + amount, compoundBalance))
    /\ providerCalls' = providerCalls + 1
    /\ seniorCash' = seniorCash + amount
    /\ fidu' = fidu + numShares(amount, sharePrice)
    /\ UNCHANGED <<sharePrice, compound, loans>> /\ PoolUnchanged

\* _withdraw, after the sweep: the amount leaves, to the holder and, as a fee, to
\* the reserve, before the shares are burned.
Payout(amount, shares) ==
    /\ providerCalls < MaxProviderCalls
    /\ providerCalls' = providerCalls + 1
    /\ MaySweepFirst
    /\ shares = fidu \/ fidu - shares >= KeptShares
    /\ amount <= AfterSweep.usdc
    /\ Matches(fidu - shares, AfterSweep.price, assetsWith(AfterSweep.usdc - amount, 0))
    /\ sharePrice' = AfterSweep.price
    /\ seniorCash' = AfterSweep.usdc - amount
    /\ fidu' = fidu - shares
    /\ NothingOnCompound
    /\ UNCHANGED loans /\ PoolUnchanged

\* Slip of PriceToBurnAt: shares are priced before the sweep.
PriceBeforeSweep == sharePrice

\* "This MUST happen before calculating withdrawShares"
PriceToBurnAt == AfterSweep.price

SeniorWithdraw(amount) ==
    /\ MaySweepFirst
    /\ PriceToBurnAt > 0
    /\ Payout(amount, numShares(amount, PriceToBurnAt))

WithdrawInFidu(shares) ==
    /\ MaySweepFirst
    /\ Payout(usdcFromShares(shares, PriceToBurnAt), shares)

-----------------------------------------------------------------------------
(* Investments                                                             *)

\* The senior pool's tokens: nobody else may deposit in a senior tranche.
Investments == {id \in DOMAIN tokens : tokens[id].tranche[2] = "senior"}

\* Slip of MayInvest: the junior capital may still be taken out.
SeniorIsOpen(slice) == slice.senior.lockedUntil = 0

MayInvest(slice) == slice.junior.lockedUntil # 0 /\ slice.senior.lockedUntil = 0

\* LeverageRatioStrategy.invest: what the senior tranche lacks of its target.
amountToInvest(slice) ==
    slice.junior.principalDeposited * LeverageRatio - slice.senior.principalDeposited

Invest ==
    LET amount == amountToInvest(slices[Current])
    IN  /\ MaySweepFirst
        /\ MayInvest(slices[Current])
        /\ amount > 0
        /\ amount <= AfterSweep.usdc
        /\ Deposit("senior", amount)
        /\ totalLoansOutstanding' = totalLoansOutstanding + amount
        /\ sharePrice' = AfterSweep.price
        /\ seniorCash' = AfterSweep.usdc - amount
        /\ NothingOnCompound
        /\ UNCHANGED <<lpVars, writedowns, totalWritedowns>>

\* Slip of PrincipalBack: a deposit taken back before the lock is not principal.
OnlyOnceLocked(id) == IF TrancheOf(id).lockedUntil = 0 THEN 0 ELSE PrincipalRedeemable(id)

\* The principal that withdrawMax gives: with all of the interest, all there is.
PrincipalBack(id) == PrincipalRedeemable(id)

RedeemInvestment(id) ==
    LET interest == InterestRedeemable(id)
    IN  /\ fidu > 0
        /\ PrincipalBack(id) <= totalLoansOutstanding
        /\ Withdraw(id, Redeemable(id))
        /\ sharePrice' = sharePrice + priceOf(interest)
        /\ seniorCash' = seniorCash + Redeemable(id)
        /\ totalLoansOutstanding' = totalLoansOutstanding - PrincipalBack(id)
        /\ UNCHANGED <<lpVars, compound, writedowns, totalWritedowns>>

-----------------------------------------------------------------------------
(* Writedowns                                                              *)

\* calculateAmountOwedForOneDay, fixed point
interestPerDay ==
    (((balance * terms.interestApr) \div INTEREST_DECIMALS) * FP_SCALING_FACTOR)
      \div SECONDS_PER_YEAR

\* How many days of interest the borrower owes and, once the term is over, how many
\* days ago that was; fixed point.
daysLate ==
    ((interestOwed + principalOwed) * FP_SCALING_FACTOR * FP_SCALING_FACTOR)
        \div interestPerDay
      + (IF now > termEndTime THEN (now - termEndTime) * FP_SCALING_FACTOR ELSE 0)

\* Beyond the grace period, the part of the maximum that the borrower is late.
writedownPercent ==
    IF interestPerDay = 0 \/ daysLate <= LatenessGracePeriod * FP_SCALING_FACTOR THEN 0
    ELSE Smaller(FP_SCALING_FACTOR,
                 (daysLate - LatenessGracePeriod * FP_SCALING_FACTOR) \div LatenessMaxDays)

\* calculateWritedownForPrincipal for the principal a token has left
writedownAmount(id) ==
    (writedownPercent * (tokens[id].principalAmount - tokens[id].principalRedeemed))
      \div FP_SCALING_FACTOR

\* A part of less than one percent is shown as 0, and writes nothing down.
NothingToWrite == (writedownPercent * 100) \div FP_SCALING_FACTOR = 0 /\ writedowns = 0

\* _distributeLosses: the price falls by what is lost, or rises by what is back.
PriceAfter(amount) ==
    IF amount < writedowns
    THEN sharePrice + priceOf(writedowns - amount)
    ELSE sharePrice - priceOf(amount - writedowns)

\* Slip of TotalAfter: the pool's earlier writedown still counts.
TotalAdded(amount) == totalWritedowns + amount

TotalAfter(amount) == totalWritedowns + amount - writedowns

\* The writedown of the pool becomes that of the token.
Writedown(id) ==
    LET amount == writedownAmount(id)
    IN  /\ ~NothingToWrite
        /\ fidu > 0
        /\ PriceAfter(amount) >= 0
        /\ TotalAfter(amount) >= 0
        /\ sharePrice' = PriceAfter(amount)
        /\ writedowns' = amount
        /\ totalWritedowns' = TotalAfter(amount)
        /\ UNCHANGED <<lpVars, compound, seniorCash, totalLoansOutstanding>>
        /\ PoolUnchanged

-----------------------------------------------------------------------------

\* What others do with the tranched pool. What junior depositors redeem of a loan,
\* and what its admin does, is left to TranchedPool.
TranchedPoolOnly ==
    /\ \/ \E amount \in DepositAmounts : Deposit("junior", amount)
       \/ \E id \in DOMAIN tokens \ Investments :
             TrancheOf(id).lockedUntil = 0 /\ Withdraw(id, Redeemable(id))
       \/ LockJuniorCapital
       \/ \E amount \in DrawAmounts : PoolDrawdown(amount)
       \/ PoolAssess
       \/ \E amount \in Amounts : PoolPay(amount)
       \/ CreditLineOnly
    /\ UNCHANGED seniorVars

SeniorNext ==
    \/ \E amount \in LPAmounts : SeniorDeposit(amount) \/ SeniorWithdraw(amount)
    \/ \E shares \in FiduAmounts : WithdrawInFidu(shares)
    \/ \E rounding \in 0..CompoundRounding : SweepToCompound(rounding)
    \/ SweepFromCompound
    \/ \E interest \in CompoundInterest : CompoundCredits(interest)
    \/ Invest
    \/ \E id \in Investments : RedeemInvestment(id) \/ Writedown(id)
    \/ TranchedPoolOnly

SeniorSpec == SeniorInit /\ [][SeniorNext]_<<clVars, poolVars, seniorVars>>
=============================================================================
