---------------------------- MODULE TranchedPool ----------------------------
(***************************************************************************)
(* TranchedPool.sol: depositors fund a slice's two tranches, the borrower  *)
(* locks the slice and draws the loan down through the pool's credit line, *)
(* payments are divided among the tranches, and depositors redeem their    *)
(* tokens.  The credit line, the tokens and the waterfall are the modules  *)
(* it extends.  Roles and allow-lists decide who may call, not what a call *)
(* does, and are left out; so are the calls to BackerRewards.              *)
(***************************************************************************)
EXTENDS CreditLine, PoolTokens, TranchingLogic, Sequences

CONSTANTS
    DrawdownPeriod,   \* GoldfinchConfig's drawdown period, in ticks
    DepositAmounts,   \* amounts that are deposited
    DrawAmounts,      \* amounts that are drawn down
    InitialMaxLimit,  \* the limit the pool is created with
    Donations,        \* amounts that are sent to the line outside a payment
    AdminLimits,      \* amounts the admin sets a limit to
    PauseValues,      \* what the admin sets the two pauses to
    FundableTimes,    \* times from which a slice may be funded
    MaxSlices         \* bound: how many slices are opened (5 in the contract)

ASSUME TranchedPoolAssumption ==
    /\ DrawdownPeriod \in Nat
    /\ DepositAmounts \subseteq Nat \ {0}
    /\ DrawAmounts \subseteq Amounts
    /\ Donations \subseteq Amounts
    /\ InitialMaxLimit \in Limits
    \* a limit may be any amount up to the largest there is
    /\ \A limit \in Limits : 0..limit \subseteq Limits
    /\ AdminLimits \subseteq Limits
    /\ PauseValues \subseteq BOOLEAN
    /\ FundableTimes \subseteq Nat
    /\ MaxSlices \in 1..5

VARIABLES
    slices,            \* _poolSlices, indexed from 1
    totalDeployed,
    fundableAt,
    paused,
    drawdownsPaused,
    cash,              \* USDC held by the pool
    redeemed,          \* history: USDC paid out for tokens of locked tranches
    swept              \* history: USDC taken out by emergencyShutdown

\* What only the pool's own code changes.
ledger    == <<slices, totalDeployed, cash, redeemed, swept>>
switches  == <<paused, drawdownsPaused>>
poolVars  == <<ledger, fundableAt, switches, tokenVars>>

PoolInit ==
    /\ Init
    /\ maxLimit = InitialMaxLimit
    /\ TokensInit
    /\ slices = <<NewSlice>>
    /\ totalDeployed = 0
    /\ fundableAt \in FundableTimes
    /\ paused = FALSE
    /\ drawdownsPaused = FALSE
    /\ cash = 0
    /\ redeemed = 0
    /\ swept = 0

-----------------------------------------------------------------------------

Current == Len(slices)

isLocked(slice) == slice.senior.lockedUntil > 0

\* _locked(): no more deposits, until the next slice is opened.
Locked == isLocked(slices[Current])

\* lockTranche
Lock(tranche) == [tranche EXCEPT !.lockedUntil = now + DrawdownPeriod]

-----------------------------------------------------------------------------
(* Depositors.                                                             *)

Deposit(kind, amount) ==
    /\ ~paused
    /\ slices[Current][kind].lockedUntil = 0
    /\ now > fundableAt
    /\ slices' = [slices EXCEPT ![Current][kind].principalDeposited = @ + amount]
    /\ mint(<<Current, kind>>, amount)
    /\ cash' = cash + amount
    /\ UNCHANGED <<clVars, totalDeployed, fundableAt, switches, redeemed, swept>>

TrancheOf(id) == slices[tokens[id].tranche[1]][tokens[id].tranche[2]]

MaxPrincipalRedeemable(id) ==
    sharePriceToUsdc(TrancheOf(id).principalSharePrice, tokens[id].principalAmount)
MaxInterestRedeemable(id) ==
    sharePriceToUsdc(TrancheOf(id).interestSharePrice, tokens[id].principalAmount)

\* redeemableInterestAndPrincipal reverts when more was redeemed already.
CanCompute(id) ==
    /\ tokens[id].principalRedeemed <= MaxPrincipalRedeemable(id)
    /\ tokens[id].interestRedeemed <= MaxInterestRedeemable(id)

PrincipalRedeemable(id) == MaxPrincipalRedeemable(id) - tokens[id].principalRedeemed
InterestRedeemable(id) == MaxInterestRedeemable(id) - tokens[id].interestRedeemed
Redeemable(id) == InterestRedeemable(id) + PrincipalRedeemable(id)

\* Before its tranche is locked a deposit can be taken back.
WithdrawDeposit(id, amount) ==
    /\ TrancheOf(id).lockedUntil = 0
    /\ slices' = [slices EXCEPT
          ![tokens[id].tranche[1]][tokens[id].tranche[2]].principalDeposited = @ - amount]
    /\ withdrawPrincipal(id, amount)
    /\ UNCHANGED redeemed

\* Once the lock is over interest is redeemed, and then principal.
RedeemToken(id, amount) ==
    LET interest == Smaller(InterestRedeemable(id), amount)
    IN  /\ TrancheOf(id).lockedUntil > 0
        /\ now > TrancheOf(id).lockedUntil
        /\ redeem(id, Smaller(PrincipalRedeemable(id), amount - interest), interest)
        /\ redeemed' = redeemed + amount
        /\ UNCHANGED slices

\* withdraw and, when the amount is all there is, withdrawMax
Withdraw(id, amount) ==
    /\ ~paused
    /\ amount > 0
    /\ CanCompute(id)
    /\ amount <= Redeemable(id)
    /\ amount <= cash
    /\ WithdrawDeposit(id, amount) \/ RedeemToken(id, amount)
    /\ cash' = cash - amount
    /\ UNCHANGED <<clVars, totalDeployed, fundableAt, switches, swept>>

Burn(id) ==
    /\ burn(id)
    /\ UNCHANGED <<clVars, ledger, fundableAt, switches>>

-----------------------------------------------------------------------------
(* The borrower.                                                           *)

LockJuniorCapital ==
    /\ ~paused
    /\ ~Locked
    /\ slices[Current].junior.lockedUntil = 0
    /\ slices' = [slices EXCEPT ![Current].junior = Lock(@)]
    /\ UNCHANGED <<clVars, totalDeployed, fundableAt, switches, cash, redeemed, swept, tokenVars>>

\* Variant: a pool may be locked again.
LockableAgain(slice) == slice.junior.lockedUntil > 0

CanLock(slice) == slice.junior.lockedUntil > 0 /\ slice.senior.lockedUntil = 0

\* Variant: the limit is not capped.
UncappedLimit == currentLimit + Deposited(slices[Current])

\* The limit that locking the pool sets: raised by the deposits.
LimitOnLock == Smaller(currentLimit + Deposited(slices[Current]), maxLimit)

LockSlice(slice) ==
    [slice EXCEPT !.junior = Lock(@), !.senior = Lock(@)]

LockPool ==
    /\ ~paused
    /\ CanLock(slices[Current])
    /\ SetLimit(LimitOnLock)
    /\ slices' = [slices EXCEPT ![Current] = LockSlice(@)]
    /\ UNCHANGED <<totalDeployed, fundableAt, switches, cash, redeemed, swept, tokenVars>>

SetFundableAt(newFundableAt) ==
    /\ fundableAt' = newFundableAt
    /\ UNCHANGED <<clVars, ledger, switches, tokenVars>>

InitializeNextSlice(newFundableAt) ==
    /\ ~paused
    /\ Locked
    /\ CanSub(now, lastFullPaymentTime)
    /\ ~isLate(balance, lastFullPaymentTime)
    /\ withinPrincipalGracePeriod
    /\ Len(slices) < MaxSlices
    /\ slices' = Append(slices, NewSlice)
    /\ fundableAt' = newFundableAt
    /\ UNCHANGED <<clVars, totalDeployed, switches, cash, redeemed, swept, tokenVars>>

\* Variant: a draw is limited by what was deposited.
AmountDeposited(slice) == Deposited(slice)

\* The principal that the current slice still has, by its share prices.
AmountAvailable(slice) ==
    sharePriceToUsdc(slice.junior.principalSharePrice, slice.junior.principalDeposited)
      + sharePriceToUsdc(slice.senior.principalSharePrice, slice.senior.principalDeposited)

\* Variant: each tranche pays for the whole of the draw.
DrawFromEach(slice, amount) ==
    [slice EXCEPT
       !.junior.principalSharePrice =
           @ - usdcToSharePrice(amount, slice.junior.principalDeposited),
       !.senior.principalSharePrice =
           @ - usdcToSharePrice(amount, slice.senior.principalDeposited),
       !.principalDeployed = @ + amount]

\* The rest is shared by the two tranches in proportion to their deposits.
DrawFrom(slice, amount) ==
    LET remaining == AmountAvailable(slice) - amount
    IN  [slice EXCEPT
           !.junior.principalSharePrice =
               calculateExpectedSharePrice(slice.junior, remaining, slice),
           !.senior.principalSharePrice =
               calculateExpectedSharePrice(slice.senior, remaining, slice),
           !.principalDeployed = @ + amount]

\* The contract computes by how much each price fell: it reverts if one rose.
NoPriceRises(slice, drawn) ==
    \A kind \in Kinds :
        drawn[kind].principalSharePrice <= slice[kind].principalSharePrice

\* drawdown: locks the pool first when it is not locked yet.
PoolDrawdown(amount) ==
    LET slice == IF Locked THEN slices[Current] ELSE LockSlice(slices[Current])
    IN  /\ ~paused
        /\ ~drawdownsPaused
        /\ Locked \/ CanLock(slices[Current])
        /\ amount <= AmountAvailable(slice)
        /\ amount <= cash
        /\ Drawdown(amount, IF Locked THEN currentLimit ELSE LimitOnLock)
        /\ Deposited(slice) > 0
        /\ NoPriceRises(slice, DrawFrom(slice, amount))
        /\ slices' = [slices EXCEPT ![Current] = DrawFrom(slice, amount)]
        /\ totalDeployed' = totalDeployed + amount
        /\ cash' = cash - amount
        /\ UNCHANGED <<fundableAt, switches, redeemed, swept, tokenVars>>

-----------------------------------------------------------------------------
(* Payments.                                                               *)

scaleForSlice(slice, amount) ==
    scaleByFraction(amount, slice.principalDeployed, totalDeployed)

AccruedSlices(interest) ==
    [i \in DOMAIN slices |->
        [slices[i] EXCEPT !.totalInterestAccrued = @ + scaleForSlice(slices[i], interest)]]

\* Variant: principal repaid before it is owed does not count.
RepaidWhenOwed(payment, slice) ==
    IF TooEarly THEN 0 ELSE scaleForSlice(slice, Allocation(payment).principalPayment)

\* The part of the repaid principal that was drawn from a slice.
RepaidTo(payment, slice) == scaleForSlice(slice, PrincipalPayment(payment))

\* _assess, once the credit line has applied `payment`: the interest it accrued
\* and, if some was applied, the whole payment are divided among the slices.
Distribute(payment) ==
    LET accrued == AccruedSlices(totalInterestAccrued' - totalInterestAccrued)
        applied == applyToAllSlices(accrued, InterestPayment(payment),
                      PrincipalPayment(payment) + PaymentRemaining(payment),
                      totalDeployed, balance', principalOwed')
    IN  IF Collected(payment) = 0
        THEN slices' = accrued /\ UNCHANGED <<totalDeployed, cash>>
        ELSE /\ CanApply(accrued, totalDeployed, balance')
             /\ \A i \in DOMAIN slices :
                   CanSub(slices[i].principalDeployed, RepaidTo(payment, slices[i]))
             /\ slices' = [i \in DOMAIN slices |->
                   [applied.slices[i] EXCEPT
                       !.principalDeployed = @ - RepaidTo(payment, slices[i])]]
             /\ totalDeployed' =
                   totalDeployed - SumOfSlices(slices, LAMBDA i : RepaidTo(payment, slices[i]))
             /\ cash' = cash + Collected(payment) - applied.reserve

PoolAssess ==
    /\ ~paused
    /\ Locked
    /\ totalDeployed > 0
    /\ Assess
    /\ Distribute(usdc)
    /\ UNCHANGED <<fundableAt, switches, redeemed, swept, tokenVars>>

PoolPay(amount) ==
    /\ ~paused
    /\ Locked
    /\ totalDeployed > 0
    /\ Pay(amount)
    /\ Distribute(usdc + amount)
    /\ UNCHANGED <<fundableAt, switches, redeemed, swept, tokenVars>>

-----------------------------------------------------------------------------
(* The admin, and everyone else.                                           *)

\* Pauses the pool and takes the USDC of the pool and of its credit line.
EmergencyShutdown ==
    /\ Sweep \/ (usdc = 0 /\ UNCHANGED clVars)
    /\ paused' = TRUE
    /\ cash' = 0
    /\ swept' = swept + cash
    /\ UNCHANGED <<slices, totalDeployed, fundableAt, drawdownsPaused, redeemed, tokenVars>>

SetPaused(value) ==
    /\ paused' = value
    /\ UNCHANGED <<clVars, ledger, fundableAt, drawdownsPaused, tokenVars>>

SetDrawdownsPaused(value) ==
    /\ drawdownsPaused' = value
    /\ UNCHANGED <<clVars, ledger, fundableAt, paused, tokenVars>>

\* What happens to the credit line alone.
CreditLineOnly ==
    /\ \/ Tick
       \/ \E amount \in Donations : Receive(amount)
       \/ \E limit \in AdminLimits :
             \/ SetLimit(limit)
             \/ SetMaxLimit(limit)
             \/ \E newTerms \in Terms : Migrate(newTerms, limit)
    /\ UNCHANGED poolVars

PoolNext ==
    \/ \E kind \in Kinds, amount \in DepositAmounts : Deposit(kind, amount)
    \/ \E id \in DOMAIN tokens :
          \/ \E amount \in DepositAmounts \cup {Redeemable(id)} : Withdraw(id, amount)
          \/ Burn(id)
    \/ LockJuniorCapital
    \/ LockPool
    \/ \E time \in FundableTimes : SetFundableAt(time) \/ InitializeNextSlice(time)
    \/ \E amount \in DrawAmounts : PoolDrawdown(amount)
    \/ PoolAssess
    \/ \E amount \in Amounts : PoolPay(amount)
    \/ EmergencyShutdown
    \/ \E value \in PauseValues : SetPaused(value) \/ SetDrawdownsPaused(value)
    \/ CreditLineOnly

PoolSpec == PoolInit /\ [][PoolNext]_<<clVars, poolVars>>
=============================================================================
