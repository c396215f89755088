-------------------------- MODULE SeniorPoolProofs --------------------------
(***************************************************************************)
(* Theorems about SeniorPool with the tranched pool it invests in, for     *)
(* every choice of amounts, prices, leverage and bounds.                   *)
(***************************************************************************)
EXTENDS SeniorPoolProperties, TranchedPoolProofs

-----------------------------------------------------------------------------
(* The tranched pool.                                                      *)

AllVars == <<clVars, poolVars, seniorVars>>

\* What the senior pool lends is what the strategy says, and nothing of the tranched
\* pool is changed in another way than TranchedPool's own.
LEMMA InvestFacts ==
    ASSUME PoolInv, Invest
    PROVE  /\ amountToInvest(slices[Current]) \in Nat \ {0}
           /\ Deposit("senior", amountToInvest(slices[Current]))
<1>1. slices[Current] \in SliceType
  BY PoolFacts
<1>2. /\ slices[Current].junior.principalDeposited \in Nat
      /\ slices[Current].senior.principalDeposited \in Nat
  BY <1>1, SliceFacts
<1>3. slices[Current].junior.principalDeposited * LeverageRatio \in Nat
  BY <1>2, SeniorPoolAssumption
<1> QED
  BY <1>2, <1>3 DEF Invest, amountToInvest

LEMMA SeniorStepKinds ==
    ASSUME PoolInv, [SeniorNext]_AllVars
    PROVE  [PoolNext]_<<clVars, poolVars>> \/ Invest
<1>1. CASE PoolUnchanged
  BY <1>1 DEF PoolUnchanged
<1>2. CASE \E amount \in LPAmounts : SeniorDeposit(amount) \/ SeniorWithdraw(amount)
  BY <1>1, <1>2 DEF SeniorDeposit, SeniorWithdraw, Payout
<1>3. CASE \E shares \in FiduAmounts : WithdrawInFidu(shares)
  BY <1>1, <1>3 DEF WithdrawInFidu, Payout
<1>4. CASE \/ \E rounding \in 0..CompoundRounding : SweepToCompound(rounding)
           \/ SweepFromCompound
           \/ \E interest \in CompoundInterest : CompoundCredits(interest)
  BY <1>1, <1>4 DEF SweepToCompound, SweepFromCompound, CompoundCredits
<1>5. ASSUME NEW id \in Investments, RedeemInvestment(id) \/ Writedown(id)
      PROVE  [PoolNext]_<<clVars, poolVars>>
  <2>1. id \in DOMAIN tokens
    BY DEF Investments
  <2>2. CASE RedeemInvestment(id)
    BY <2>1, <2>2 DEF RedeemInvestment, PoolNext
  <2>3. CASE Writedown(id)
    BY <2>3 DEF Writedown, PoolUnchanged
  <2> QED
    BY <1>5, <2>2, <2>3
<1>6. CASE TranchedPoolOnly
  BY <1>6 DEF TranchedPoolOnly, PoolNext, Kinds
<1>7. CASE UNCHANGED AllVars
  BY <1>7 DEF AllVars
<1> QED
  BY <1>2, <1>3, <1>4, <1>5, <1>6, <1>7 DEF SeniorNext

LEMMA PoolUnderSenior ==
    ASSUME AccountsInv, ScheduleInv, [SeniorNext]_AllVars
    PROVE  AccountsInv' /\ ScheduleInv'
<1>1. PoolInv
  BY DEF AccountsInv
<1>2. CASE [PoolNext]_<<clVars, poolVars>>
  BY <1>2, AccountsStep
<1>3. CASE Invest
  <2>1. AccountsInv' /\ UNCHANGED clVars
    BY <1>1, <1>3, InvestFacts, DepositKeeps DEF Kinds, Deposit
  <2>2. ScheduleInv'
    BY <2>1, ScheduleStep
  <2> QED
    BY <2>1, <2>2
<1> QED
  BY <1>1, <1>2, <1>3, SeniorStepKinds

LEMMA PoolUnderSeniorInvariant == SeniorSpec => [](AccountsInv /\ ScheduleInv)
<1>1. SeniorInit => AccountsInv /\ ScheduleInv
  BY AccountsInit DEF SeniorInit
<1>2. AccountsInv /\ ScheduleInv /\ [SeniorNext]_AllVars => (AccountsInv /\ ScheduleInv)'
  BY PoolUnderSenior
<1> QED
  BY <1>1, <1>2, PTL DEF SeniorSpec, AllVars

\* The senior pool's investments and redemptions leave the tranched pool with all that
\* its share prices promise, though it deposits amounts of its own choice.
THEOREM EntitlementsFundedUnderSenior == SeniorSpec => []EntitlementsFunded
<1>1. AccountsInv => EntitlementsFunded
  BY DEF AccountsInv
<1> QED
  BY <1>1, PoolUnderSeniorInvariant, PTL

-----------------------------------------------------------------------------
(* The leverage.                                                           *)

\* A step that moves no deposit and opens no tranche.
DepositsStay ==
    /\ DOMAIN slices' = DOMAIN slices
    /\ \A i \in DOMAIN slices, kind \in Kinds :
          /\ slices'[i][kind].principalDeposited = slices[i][kind].principalDeposited
          /\ slices[i][kind].lockedUntil # 0 => slices'[i][kind].lockedUntil # 0

LEMMA LockJuniorStays ==
    ASSUME PoolInv, ScheduleInv, LockJuniorCapital
    PROVE  DepositsStay
<1> DEFINE c == Current
           t == now + DrawdownPeriod
           tranche == [slices[c].junior EXCEPT !.lockedUntil = t]
           slice == [slices[c] EXCEPT !.junior = tranche]
<1>1. c \in DOMAIN slices /\ slices[c] \in SliceType /\ t \in Nat \ {0}
  BY PoolFacts, LockTime
<1>2. slices' = [slices EXCEPT ![c] = slice]
  BY DEF LockJuniorCapital, Lock
<1>3. /\ tranche.principalDeposited = slices[c].junior.principalDeposited
      /\ tranche.lockedUntil = t
  BY <1>1 DEF SliceType, TrancheType
<1>4. slice.junior = tranche /\ slice.senior = slices[c].senior
  BY <1>1 DEF SliceType
<1> HIDE DEF tranche, t
<1>5. ASSUME NEW kind \in Kinds
      PROVE  /\ slice[kind].principalDeposited = slices[c][kind].principalDeposited
             /\ slices[c][kind].lockedUntil # 0 => slice[kind].lockedUntil # 0
  BY <1>1, <1>3, <1>4 DEF Kinds
<1> HIDE DEF slice, c
<1> QED
  BY <1>1, <1>2, <1>5 DEF DepositsStay

LEMMA DrawStays ==
    ASSUME PoolInv, ScheduleInv, NEW amount \in DrawAmounts, PoolDrawdown(amount)
    PROVE  DepositsStay
<1> DEFINE c == Current
           slice == DrawFrom(DrawSlice, amount)
<1>1. c \in DOMAIN slices
  BY PoolFacts
<1>2. /\ slices' = [slices EXCEPT ![c] = slice]
      /\ Drawn(DrawSlice, slice, amount)
      /\ Locked \/ CanLock(slices[c])
  BY PoolDrawdownFacts
<1>3. /\ isLocked(DrawSlice) /\ DrawSlice.junior.lockedUntil > 0
      /\ \A kind \in Kinds : DrawSlice[kind].principalDeposited
                               = slices[c][kind].principalDeposited
  BY <1>2, DrawSliceFacts
<1>4. ASSUME NEW kind \in Kinds
      PROVE  /\ slice[kind].principalDeposited = slices[c][kind].principalDeposited
             /\ slice[kind].lockedUntil # 0
  <2>1. DrawSlice[kind].lockedUntil > 0
    BY <1>3 DEF Kinds, isLocked
  <2> QED
    BY <1>2, <1>3, <2>1 DEF Drawn
<1> HIDE DEF slice, c
<1> QED
  BY <1>1, <1>2, <1>4 DEF DepositsStay

LEMMA PaymentStays ==
    ASSUME AccountsInv, ScheduleInv, ScheduleInv', NEW payment \in Nat, PoolPayment(payment)
    PROVE  DepositsStay
<1>1. PICK parts \in Nat, reserve \in Nat : Settled(payment, parts, reserve)
  BY PaymentSettled
<1>2. DOMAIN slices' = DOMAIN slices
  BY <1>1 DEF Settled
<1>3. ASSUME NEW i \in DOMAIN slices, NEW kind \in Kinds
      PROVE  /\ slices'[i][kind].principalDeposited = slices[i][kind].principalDeposited
             /\ slices'[i][kind].lockedUntil = slices[i][kind].lockedUntil
  <2>1. Repaid(slices[i], slices'[i], PrincipalAccruedIn(i), PartRepaid(payment, i))
    BY <1>1 DEF Settled
  <2> QED
    BY <2>1 DEF Repaid
<1> QED
  BY <1>2, <1>3 DEF DepositsStay

\* One tranche of slice i has n deposited, and nothing else changes.
Moved(i, kind, n) ==
    /\ DOMAIN slices' = DOMAIN slices
    /\ \A j \in DOMAIN slices \ {i} : slices'[j] = slices[j]
    /\ slices'[i][kind].principalDeposited = n
    /\ \A k \in Kinds :
          /\ slices'[i][k].lockedUntil = slices[i][k].lockedUntil
          /\ k # kind => slices'[i][k] = slices[i][k]

LEMMA MovedFacts ==
    ASSUME PoolInv, NEW i \in DOMAIN slices, NEW kind \in Kinds, NEW n,
           slices' = [slices EXCEPT ![i] = WithDeposit(slices[i], kind, n)]
    PROVE  Moved(i, kind, n)
<1> DEFINE tranche == [slices[i][kind] EXCEPT !.principalDeposited = n]
           slice == [slices[i] EXCEPT ![kind] = tranche]
<1>1. slices[i] \in SliceType /\ slices[i][kind] \in TrancheType
  BY PoolFacts, KindFacts
<1>2. WithDeposit(slices[i], kind, n) = slice
  BY DEF WithDeposit
<1>3. tranche.principalDeposited = n /\ tranche.lockedUntil = slices[i][kind].lockedUntil
  BY <1>1 DEF TrancheType
<1> HIDE DEF tranche
<1>4. /\ slice[kind] = tranche
      /\ \A k \in Kinds : k # kind => slice[k] = slices[i][k]
  BY <1>1 DEF SliceType, Kinds
<1> HIDE DEF slice
<1> QED
  BY <1>2, <1>3, <1>4 DEF Moved

LEMMA DepositMoves ==
    ASSUME PoolInv, NEW kind \in Kinds, NEW amount, Deposit(kind, amount)
    PROVE  Moved(Current, kind, slices[Current][kind].principalDeposited + amount)
<1>1. Current \in DOMAIN slices
  BY PoolFacts
<1>2. slices' = [slices EXCEPT ![Current] =
         WithDeposit(slices[Current], kind, slices[Current][kind].principalDeposited + amount)]
  BY <1>1 DEF Deposit, WithDeposit
<1> QED
  BY <1>1, <1>2, MovedFacts

LEMMA WithdrawMoves ==
    ASSUME PoolInv, NEW id \in DOMAIN tokens, NEW amount, Withdraw(id, amount)
    PROVE  \/ slices' = slices
           \/ /\ TrancheOf(id).lockedUntil = 0
              /\ Moved(tokens[id].tranche[1], tokens[id].tranche[2],
                       TrancheOf(id).principalDeposited - amount)
<1> DEFINE i == tokens[id].tranche[1]
           kind == tokens[id].tranche[2]
<1>1. i \in DOMAIN slices /\ kind \in Kinds
  BY TokenFacts
<1>2. CASE WithdrawDeposit(id, amount)
  <2>1. slices' = [slices EXCEPT ![i] =
           WithDeposit(slices[i], kind, slices[i][kind].principalDeposited - amount)]
    BY <1>1, <1>2 DEF WithdrawDeposit, WithDeposit
  <2> HIDE DEF i, kind
  <2>2. Moved(i, kind, slices[i][kind].principalDeposited - amount)
    BY <1>1, <2>1, MovedFacts
  <2> QED
    BY <1>2, <2>2 DEF WithdrawDeposit, TrancheOf, i, kind
<1>3. CASE RedeemToken(id, amount)
  BY <1>3 DEF RedeemToken
<1> QED
  BY <1>2, <1>3 DEF Withdraw

\* The inductive invariant behind TargetNotExceeded: the senior pool only joins a
\* junior tranche that can no longer be taken out.
Borne(slice) ==
    /\ slice.senior.principalDeposited <= slice.junior.principalDeposited * LeverageRatio
    /\ slice.junior.lockedUntil = 0 => slice.senior.principalDeposited = 0

SeniorBorne == \A i \in DOMAIN slices : Borne(slices[i])

\* How a step may change a slice for the senior tranche to stay within the target.
StaysBorne(before, after) ==
    LET senior == after.senior.principalDeposited
        junior == after.junior.principalDeposited
    IN  /\ before.junior.lockedUntil # 0 => after.junior.lockedUntil # 0
        /\ \/ senior <= before.senior.principalDeposited
                /\ (before.junior.lockedUntil = 0 \/ junior >= before.junior.principalDeposited)
           \/ after.junior.lockedUntil # 0 /\ senior <= junior * LeverageRatio

LEMMA BorneKept ==
    ASSUME NEW before \in SliceType, NEW after \in SliceType, Borne(before),
           StaysBorne(before, after)
    PROVE  Borne(after)
<1> DEFINE s == before.senior.principalDeposited
           j == before.junior.principalDeposited
           s2 == after.senior.principalDeposited
           j2 == after.junior.principalDeposited
<1>1. s \in Nat /\ j \in Nat /\ s2 \in Nat /\ j2 \in Nat /\ LeverageRatio \in Nat
  BY SliceFacts, SeniorPoolAssumption
<1>2. j2 * LeverageRatio \in Nat
  BY <1>1
<1>3. CASE after.junior.lockedUntil # 0 /\ s2 <= j2 * LeverageRatio
  BY <1>3 DEF Borne
<1>4. CASE s2 <= s /\ before.junior.lockedUntil = 0
  <2>1. s2 = 0
    BY <1>1, <1>4 DEF Borne
  <2> QED
    BY <1>2, <2>1 DEF Borne
<1>5. CASE s2 <= s /\ before.junior.lockedUntil # 0 /\ j2 >= j
  <2>1. j * LeverageRatio <= j2 * LeverageRatio
    BY <1>1, <1>5, Multiply
  <2>2. s <= j * LeverageRatio /\ j * LeverageRatio \in Nat
    BY <1>1 DEF Borne
  <2>3. s2 <= j2 * LeverageRatio
    BY <1>1, <1>2, <1>5, <2>1, <2>2
  <2> QED
    BY <1>5, <2>3 DEF Borne, StaysBorne
<1> QED
  BY <1>3, <1>4, <1>5 DEF StaysBorne

LEMMA StaysBorneWhenKept ==
    ASSUME PoolInv, DepositsStay \/ slices' = slices, NEW i \in DOMAIN slices
    PROVE  i \in DOMAIN slices /\ DOMAIN slices' = DOMAIN slices /\ StaysBorne(slices[i], slices'[i])
<1>1. /\ slices[i].senior.principalDeposited \in Nat
      /\ slices[i].junior.principalDeposited \in Nat
  BY PoolFacts, SliceFacts
<1>2. CASE DepositsStay
  BY <1>1, <1>2 DEF DepositsStay, StaysBorne, Kinds
<1>3. CASE slices' = slices
  BY <1>1, <1>3 DEF StaysBorne
<1> QED
  BY <1>2, <1>3

\* Each step of the senior pool and of others leaves every slice within the target.
LEMMA StaysBorneStep ==
    ASSUME PoolInv, AccountsInv, ScheduleInv, ScheduleInv', [SeniorNext]_AllVars,
           NEW i \in DOMAIN slices
    PROVE  DOMAIN slices' = DOMAIN slices /\ StaysBorne(slices[i], slices'[i])
<1> DEFINE Goal == DOMAIN slices' = DOMAIN slices /\ StaysBorne(slices[i], slices'[i])
           s == slices[i].senior.principalDeposited
           j == slices[i].junior.principalDeposited
<1>1. /\ s \in Nat /\ j \in Nat /\ Current \in DOMAIN slices
      /\ slices[Current] \in SliceType
  BY PoolFacts, SliceFacts
<1>2. CASE DepositsStay \/ slices' = slices
  BY <1>2, StaysBorneWhenKept
<1>3. CASE \E amount \in DepositAmounts : Deposit("junior", amount)
  <2>1. PICK amount \in DepositAmounts : Deposit("junior", amount)
    BY <1>3
  <2>2. Moved(Current, "junior", slices[Current].junior.principalDeposited + amount)
    BY <2>1, DepositMoves DEF Kinds
  <2>3. amount \in Nat
    BY TranchedPoolAssumption
  <2>4. CASE i = Current
    BY <1>1, <2>2, <2>3, <2>4 DEF Moved, StaysBorne, Kinds
  <2>5. CASE i # Current
    BY <1>1, <2>2, <2>5 DEF Moved, StaysBorne
  <2> QED
    BY <2>4, <2>5
<1>4. CASE Invest
  <2> DEFINE amount == amountToInvest(slices[Current])
             target == slices[Current].junior.principalDeposited * LeverageRatio
  <2>1. amount \in Nat \ {0} /\ Deposit("senior", amount)
    BY <1>4, InvestFacts
  <2>2. Moved(Current, "senior", slices[Current].senior.principalDeposited + amount)
    BY <2>1, DepositMoves DEF Kinds
  <2>3. /\ slices[Current].senior.principalDeposited \in Nat
        /\ slices[Current].junior.principalDeposited \in Nat
    BY <1>1, SliceFacts
  <2>4. target \in Nat /\ slices[Current].senior.principalDeposited + amount = target
    BY <2>3, SeniorPoolAssumption DEF amountToInvest
  <2>5. slices[Current].junior.lockedUntil # 0
    BY <1>4 DEF Invest, MayInvest
  <2>6. CASE i = Current
    <3>1. /\ slices'[i].senior.principalDeposited = target
          /\ slices'[i].junior = slices[i].junior
      BY <2>2, <2>4, <2>6 DEF Moved, Kinds
    <3> QED
      BY <2>2, <2>4, <2>5, <2>6, <3>1 DEF Moved, StaysBorne
  <2>7. CASE i # Current
    BY <1>1, <2>2, <2>7 DEF Moved, StaysBorne
  <2> QED
    BY <2>6, <2>7
<1>5. ASSUME NEW id \in DOMAIN tokens, NEW amount \in Nat, Withdraw(id, amount),
             slices' # slices
      PROVE  Goal
  <2> DEFINE k == tokens[id].tranche[1]
             kind == tokens[id].tranche[2]
  <2>1. /\ TrancheOf(id).lockedUntil = 0
        /\ Moved(k, kind, slices[k][kind].principalDeposited - amount)
    BY <1>5, WithdrawMoves DEF TrancheOf
  <2>2. k \in DOMAIN slices /\ kind \in Kinds
    BY TokenFacts
  <2>3. CASE i # k
    BY <1>1, <2>1, <2>3 DEF Moved, StaysBorne
  <2>4. CASE i = k /\ kind = "senior"
    BY <1>1, <1>5, <2>1, <2>4 DEF Moved, StaysBorne, Kinds
  <2>5. CASE i = k /\ kind = "junior"
    BY <1>1, <2>1, <2>5 DEF Moved, StaysBorne, Kinds, TrancheOf
  <2> QED
    BY <2>2, <2>3, <2>4, <2>5 DEF Kinds
<1>6. ASSUME NEW id \in DOMAIN tokens, Withdraw(id, Redeemable(id))
      PROVE  Redeemable(id) \in Nat
  BY <1>6, RedeemableFacts DEF Withdraw, Redeemable
<1>7. CASE TranchedPoolOnly
  <2>1. CASE LockJuniorCapital
    BY <1>2, <2>1, LockJuniorStays
  <2>2. CASE \E amount \in DrawAmounts : PoolDrawdown(amount)
    BY <1>2, <2>2, DrawStays
  <2>3. CASE PoolAssess \/ \E amount \in Amounts : PoolPay(amount)
    <3>1. PICK payment \in Nat : PoolPayment(payment)
      BY <2>3, PaymentIs
    <3> QED
      BY <1>2, <3>1, PaymentStays
  <2>4. CASE CreditLineOnly
    BY <1>2, <2>4 DEF CreditLineOnly, poolVars, ledger
  <2>5. CASE \E id \in DOMAIN tokens \ Investments :
                TrancheOf(id).lockedUntil = 0 /\ Withdraw(id, Redeemable(id))
    BY <1>2, <1>5, <1>6, <2>5
  <2> QED
    BY <1>3, <1>7, <2>1, <2>2, <2>3, <2>4, <2>5 DEF TranchedPoolOnly
<1>8. CASE \E id \in Investments : RedeemInvestment(id)
  BY <1>2, <1>5, <1>6, <1>8 DEF RedeemInvestment, Investments
<1>9. CASE PoolUnchanged \/ UNCHANGED AllVars
  BY <1>2, <1>9 DEF PoolUnchanged, AllVars, poolVars, ledger
<1> HIDE DEF Goal
<1>10. CASE \/ \E amount \in LPAmounts : SeniorDeposit(amount) \/ SeniorWithdraw(amount)
            \/ \E shares \in FiduAmounts : WithdrawInFidu(shares)
  BY <1>9, <1>10 DEF SeniorDeposit, SeniorWithdraw, WithdrawInFidu, Payout, Goal
<1>11. CASE \/ \E rounding \in 0..CompoundRounding : SweepToCompound(rounding)
            \/ SweepFromCompound
            \/ \E interest \in CompoundInterest : CompoundCredits(interest)
  BY <1>9, <1>11 DEF SweepToCompound, SweepFromCompound, CompoundCredits, Goal
<1>12. CASE \E id \in Investments : Writedown(id)
  BY <1>9, <1>12 DEF Writedown, Goal
<1> QED
  BY <1>4, <1>7, <1>8, <1>9, <1>10, <1>11, <1>12 DEF SeniorNext, Goal

\* However often invest is called, and whatever is deposited and taken out in between,
\* no slice has more senior capital than its junior capital bears: for any leverage.
THEOREM TargetNotExceededCorrect == SeniorSpec => []TargetNotExceeded
<1>1. SeniorInit => SeniorBorne
  <2> SUFFICES ASSUME SeniorInit, NEW i \in DOMAIN slices PROVE Borne(slices[i])
    BY DEF SeniorBorne
  <2>1. slices[i] = NewSlice
    BY DEF SeniorInit, PoolInit
  <2>2. 0 * LeverageRatio = 0
    BY SeniorPoolAssumption
  <2> QED
    BY <2>1, <2>2 DEF NewSlice, NewTranche, Borne
<1>2. SeniorBorne /\ AccountsInv /\ ScheduleInv /\ (AccountsInv /\ ScheduleInv)'
        /\ [SeniorNext]_AllVars => SeniorBorne'
  <2> SUFFICES ASSUME SeniorBorne, AccountsInv, ScheduleInv, AccountsInv', ScheduleInv',
                      [SeniorNext]_AllVars, NEW i \in DOMAIN slices'
               PROVE  Borne(slices'[i])
    BY DEF SeniorBorne
  <2>1. PoolInv
    BY DEF AccountsInv
  <2>2. Current \in DOMAIN slices
    BY <2>1, PoolFacts
  <2>3. DOMAIN slices' = DOMAIN slices
    BY <2>1, <2>2, StaysBorneStep
  <2>4. StaysBorne(slices[i], slices'[i])
    BY <2>1, <2>3, StaysBorneStep
  <2>5. slices' \in Seq(SliceType)
    BY DEF AccountsInv, PoolInv, PoolTypeOK, LedgerOk
  <2>6. slices[i] \in SliceType /\ slices'[i] \in SliceType
    BY <2>1, <2>3, <2>5, PoolFacts
  <2> QED
    BY <2>3, <2>4, <2>6, BorneKept DEF SeniorBorne
<1>3. SeniorBorne => TargetNotExceeded
  BY DEF SeniorBorne, Borne, TargetNotExceeded
<1> QED
  BY <1>1, <1>2, <1>3, PoolUnderSeniorInvariant, PTL DEF SeniorSpec, AllVars

-----------------------------------------------------------------------------
(* Loans outstanding.                                                      *)

\* What a token has not got back, and what all of the senior pool's have not.
StillOut(token) == token.principalAmount - token.principalRedeemed
SeniorTokens(live) == {id \in DOMAIN live : live[id].tranche[2] = "senior"}
OutstandingIn(live) ==
    SumFunctionOnSet([id \in SeniorTokens(live) |-> StillOut(live[id])], SeniorTokens(live))

Countable(live) ==
    IsFiniteSet(DOMAIN live) /\ \A id \in DOMAIN live : StillOut(live[id]) \in Int

\* The inductive invariant behind LoansMatchTokens.
LoansInv ==
    /\ LoansMatchTokens
    /\ \A id \in DOMAIN tokens : tokens[id].principalRedeemed <= tokens[id].principalAmount

LEMMA OutstandingIs ==
    ASSUME NEW live
    PROVE  SumFunction([id \in SeniorTokens(live) |->
              live[id].principalAmount - live[id].principalRedeemed]) = OutstandingIn(live)
<1> DEFINE f == [id \in SeniorTokens(live) |->
                   live[id].principalAmount - live[id].principalRedeemed]
           g == [id \in SeniorTokens(live) |-> StillOut(live[id])]
<1>1. f = g /\ DOMAIN f = SeniorTokens(live)
  BY DEF StillOut
<1>2. SumFunction(f) = SumFunctionOnSet(f, DOMAIN f)
  BY DEF SumFunction
<1> HIDE DEF f, g
<1> QED
  BY <1>1, <1>2 DEF OutstandingIn, f, g

LEMMA LoansAre ==
    /\ LoansMatchTokens <=> totalLoansOutstanding = OutstandingIn(tokens)
    /\ LoansMatchTokens' <=> totalLoansOutstanding' = OutstandingIn(tokens')
<1>1. Investments = SeniorTokens(tokens) /\ Investments' = SeniorTokens(tokens')
  BY DEF Investments, SeniorTokens
<1> QED
  BY <1>1, OutstandingIs DEF LoansMatchTokens

LEMMA TokensCountable == PoolInv => Countable(tokens)
<1> SUFFICES ASSUME PoolInv PROVE Countable(tokens)
  OBVIOUS
<1> QED
  BY TokenFacts DEF Countable, StillOut

\* One token has changed, not the tranche it stands for.
LEMMA OutstandingUpdated ==
    ASSUME NEW live, NEW after, NEW id \in DOMAIN live, Countable(live),
           DOMAIN after = DOMAIN live, after[id].tranche = live[id].tranche,
           \A x \in DOMAIN live \ {id} : after[x] = live[x],
           StillOut(after[id]) \in Int
    PROVE  OutstandingIn(after) = OutstandingIn(live)
              + (IF live[id].tranche[2] = "senior"
                 THEN StillOut(after[id]) - StillOut(live[id]) ELSE 0)
<1> DEFINE S == SeniorTokens(live)
           f == [x \in S |-> StillOut(live[x])]
           h == [x \in S |-> StillOut(after[x])]
<1>1. SeniorTokens(after) = S
  BY DEF SeniorTokens
<1>2. IsFiniteSet(S)
  BY FS_Subset DEF SeniorTokens, Countable
<1>3. /\ \A x \in S : f[x] \in Int /\ h[x] \in Int
      /\ \A x \in S \ {id} : h[x] = f[x]
      /\ id \in S => f[id] = StillOut(live[id]) /\ h[id] = StillOut(after[id])
      /\ id \in S <=> live[id].tranche[2] = "senior"
  BY DEF SeniorTokens, Countable
<1>4. /\ OutstandingIn(live) = SumFunctionOnSet(f, S)
      /\ OutstandingIn(after) = SumFunctionOnSet(h, S)
  BY <1>1 DEF OutstandingIn
<1> HIDE DEF S, f, h
<1>5. SumFunctionOnSet(f, S) \in Int
  BY <1>2, <1>3, SumType
<1>6. CASE id \in S
  <2>1. SumFunctionOnSet(h, S) = SumFunctionOnSet(f, S) - f[id] + h[id]
    BY <1>2, <1>3, <1>6, SumUpdate
  <2>2. f[id] \in Int /\ h[id] \in Int
    BY <1>3, <1>6
  <2> QED
    BY <1>3, <1>4, <1>5, <1>6, <2>1, <2>2
<1>7. CASE id \notin S
  <2>1. SumFunctionOnSet(h, S) = SumFunctionOnSet(f, S)
    BY <1>2, <1>3, <1>7, SumSame
  <2> QED
    BY <1>3, <1>4, <1>5, <1>7, <2>1
<1> QED
  BY <1>6, <1>7

LEMMA OutstandingMinted ==
    ASSUME NEW live, NEW after, NEW new, new \notin DOMAIN live, Countable(live),
           NEW tranche, NEW amount \in Nat,
           DOMAIN after = DOMAIN live \cup {new}, after[new] = TokenInfo(tranche, amount),
           \A x \in DOMAIN live : after[x] = live[x]
    PROVE  OutstandingIn(after) = OutstandingIn(live)
              + (IF tranche[2] = "senior" THEN amount ELSE 0)
<1> DEFINE S == SeniorTokens(live)
           T == SeniorTokens(after)
           f == [x \in S |-> StillOut(live[x])]
           h == [x \in T |-> StillOut(after[x])]
<1>1. after[new].tranche = tranche /\ StillOut(after[new]) = amount
  BY DEF TokenInfo, StillOut
<1>2. T = IF tranche[2] = "senior" THEN S \cup {new} ELSE S
  BY <1>1 DEF SeniorTokens
<1>3. IsFiniteSet(S) /\ new \notin S
  BY FS_Subset DEF SeniorTokens, Countable
<1>4. /\ \A x \in S : f[x] \in Int /\ x \in T /\ h[x] = f[x]
      /\ new \in T => h[new] = amount
  BY <1>1, <1>2 DEF SeniorTokens, Countable
<1>5. /\ OutstandingIn(live) = SumFunctionOnSet(f, S)
      /\ OutstandingIn(after) = SumFunctionOnSet(h, T)
  BY DEF OutstandingIn
<1> HIDE DEF S, T, f, h
<1>6. SumFunctionOnSet(f, S) \in Int
  BY <1>3, <1>4, SumType
<1>7. CASE tranche[2] = "senior"
  <2>1. h[new] = amount /\ T = S \cup {new}
    BY <1>2, <1>4, <1>7
  <2>2. SumFunctionOnSet(h, S \cup {new}) = SumFunctionOnSet(f, S) + h[new]
    BY <1>3, <1>4, <2>1, SumAdd
  <2> QED
    BY <1>5, <1>7, <2>1, <2>2
<1>8. CASE tranche[2] # "senior"
  <2>1. SumFunctionOnSet(h, S) = SumFunctionOnSet(f, S)
    BY <1>3, <1>4, SumSame
  <2> QED
    BY <1>2, <1>5, <1>6, <1>8, <2>1
<1> QED
  BY <1>7, <1>8

LEMMA OutstandingIsInt ==
    ASSUME NEW live, Countable(live)
    PROVE  OutstandingIn(live) \in Int
<1> DEFINE S == SeniorTokens(live)
           f == [x \in S |-> StillOut(live[x])]
<1>1. IsFiniteSet(S) /\ \A x \in S : f[x] \in Int
  BY FS_Subset DEF SeniorTokens, Countable
<1>2. OutstandingIn(live) = SumFunctionOnSet(f, S)
  BY DEF OutstandingIn
<1> HIDE DEF S, f
<1> QED
  BY <1>1, <1>2, SumType

\* What withdrawing all there is does to a token: the principal that comes back is
\* what it has less out. In an open tranche all of its deposit is principal.
LEMMA WithdrawAll ==
    ASSUME PoolInv, NEW id \in DOMAIN tokens, Withdraw(id, Redeemable(id))
    PROVE  /\ PrincipalRedeemable(id) \in Nat /\ InterestRedeemable(id) \in Nat
           /\ DOMAIN tokens' = DOMAIN tokens
           /\ \A x \in DOMAIN tokens \ {id} : tokens'[x] = tokens[x]
           /\ tokens'[id].tranche = tokens[id].tranche
           /\ StillOut(tokens'[id]) = StillOut(tokens[id]) - PrincipalRedeemable(id)
           /\ StillOut(tokens'[id]) \in Int
           /\ tokens'[id].principalRedeemed <= tokens'[id].principalAmount
<1> DEFINE a == tokens[id].principalAmount
           r == tokens[id].principalRedeemed
           p == PrincipalRedeemable(id)
           q == InterestRedeemable(id)
<1>1. p \in Nat /\ q \in Nat /\ Redeemable(id) = q + p
  BY RedeemableFacts DEF Withdraw, Redeemable
<1>2. /\ tokens[id] \in TokenType /\ a \in Nat /\ r \in Nat
      /\ tokens[id].interestRedeemed \in Nat
      /\ tokens[id].tranche[1] \in DOMAIN slices /\ tokens[id].tranche[2] \in Kinds
  BY TokenFacts
<1>3. CASE RedeemToken(id, Redeemable(id))
  <2>1. Smaller(q, q + p) = q /\ Smaller(p, (q + p) - q) = p
    BY <1>1 DEF Smaller
  <2>2. redeem(id, p, q)
    BY <1>1, <1>3, <2>1 DEF RedeemToken
  <2> HIDE DEF p, q
  <2>3. /\ tokens' = [tokens EXCEPT ![id].principalRedeemed = @ + p,
                                    ![id].interestRedeemed = @ + q]
        /\ r + p <= a
    BY <2>2 DEF redeem
  <2>4. /\ DOMAIN tokens' = DOMAIN tokens
        /\ \A x \in DOMAIN tokens \ {id} : tokens'[x] = tokens[x]
        /\ tokens'[id] = [tokens[id] EXCEPT !.principalRedeemed = r + p,
                                            !.interestRedeemed = @ + q]
    BY <2>3
  <2>5. /\ tokens'[id].tranche = tokens[id].tranche
        /\ tokens'[id].principalAmount = a /\ tokens'[id].principalRedeemed = r + p
    BY <1>2, <2>4 DEF TokenType
  <2> QED
    BY <1>1, <1>2, <2>3, <2>4, <2>5 DEF StillOut, p, q
<1>4. CASE WithdrawDeposit(id, Redeemable(id))
  <2> DEFINE i == tokens[id].tranche[1]
             kind == tokens[id].tranche[2]
  <2>1. AtPar(slices[i])
    BY <1>2, <1>4, OpenTranche DEF WithdrawDeposit, TrancheOf
  <2>2. /\ TrancheOf(id).principalSharePrice = FP_SCALING_FACTOR
        /\ TrancheOf(id).interestSharePrice = 0
    BY <1>2, <2>1 DEF AtPar, TrancheOf
  <2>3. MaxPrincipalRedeemable(id) = a /\ MaxInterestRedeemable(id) = 0
    BY <1>2, <2>2, ParFacts DEF MaxPrincipalRedeemable, MaxInterestRedeemable
  <2>4. /\ r = 0
        /\ tokens' = [tokens EXCEPT ![id].principalAmount = @ - Redeemable(id)]
    BY <1>4 DEF WithdrawDeposit, withdrawPrincipal
  <2>5. p = a - r /\ q = 0 - tokens[id].interestRedeemed
    BY <2>3 DEF PrincipalRedeemable, InterestRedeemable
  <2>6. p = a /\ q = 0 /\ Redeemable(id) = a
    BY <1>1, <1>2, <2>4, <2>5
  <2>7. /\ DOMAIN tokens' = DOMAIN tokens
        /\ \A x \in DOMAIN tokens \ {id} : tokens'[x] = tokens[x]
        /\ tokens'[id] = [tokens[id] EXCEPT !.principalAmount = a - a]
    BY <2>4, <2>6
  <2>8. /\ tokens'[id].tranche = tokens[id].tranche
        /\ tokens'[id].principalAmount = 0 /\ tokens'[id].principalRedeemed = 0
    BY <1>2, <2>4, <2>7 DEF TokenType
  <2>9. p \in Nat /\ q \in Nat
    BY <1>1
  <2> HIDE DEF p, q
  <2> QED
    BY <1>2, <2>4, <2>6, <2>7, <2>8, <2>9 DEF StillOut, p, q
<1> QED
  BY <1>3, <1>4 DEF Withdraw

LEMMA LoansWithdrawn ==
    ASSUME PoolInv, LoansInv, NEW id \in DOMAIN tokens, Withdraw(id, Redeemable(id)),
           totalLoansOutstanding' = totalLoansOutstanding
              - (IF id \in Investments THEN PrincipalRedeemable(id) ELSE 0)
    PROVE  LoansInv'
<1> DEFINE p == PrincipalRedeemable(id)
<1>1. /\ p \in Nat
      /\ DOMAIN tokens' = DOMAIN tokens
      /\ \A x \in DOMAIN tokens \ {id} : tokens'[x] = tokens[x]
      /\ tokens'[id].tranche = tokens[id].tranche
      /\ StillOut(tokens'[id]) = StillOut(tokens[id]) - p
      /\ StillOut(tokens'[id]) \in Int
      /\ tokens'[id].principalRedeemed <= tokens'[id].principalAmount
  BY WithdrawAll
<1> HIDE DEF p
<1>2. Countable(tokens)
  BY TokensCountable
<1>3. OutstandingIn(tokens') = OutstandingIn(tokens)
         + (IF tokens[id].tranche[2] = "senior"
            THEN StillOut(tokens'[id]) - StillOut(tokens[id]) ELSE 0)
  BY <1>1, <1>2, OutstandingUpdated
<1>4. totalLoansOutstanding = OutstandingIn(tokens) /\ OutstandingIn(tokens) \in Int
  BY <1>2, LoansAre, OutstandingIsInt DEF LoansInv
<1>5. id \in Investments <=> tokens[id].tranche[2] = "senior"
  BY DEF Investments
<1>6. StillOut(tokens[id]) \in Int
  BY <1>2 DEF Countable
<1>7. totalLoansOutstanding' = OutstandingIn(tokens')
  BY <1>1, <1>3, <1>4, <1>5, <1>6 DEF p
<1>8. LoansMatchTokens'
  BY <1>7, LoansAre
<1>9. \A x \in DOMAIN tokens' : tokens'[x].principalRedeemed <= tokens'[x].principalAmount
  BY <1>1 DEF LoansInv
<1> QED
  BY <1>8, <1>9 DEF LoansInv

\* A deposit mints a token for it.
LEMMA LoansMinted ==
    ASSUME PoolInv, LoansInv, NEW kind \in Kinds, NEW amount \in Nat, Deposit(kind, amount),
           totalLoansOutstanding' = totalLoansOutstanding
              + (IF kind = "senior" THEN amount ELSE 0)
    PROVE  LoansInv'
<1> DEFINE new == lastTokenId + 1
           tranche == <<Current, kind>>
<1>1. Countable(tokens) /\ new \notin DOMAIN tokens
  BY TokensCountable, TokenFacts
<1>2. /\ DOMAIN tokens' = DOMAIN tokens \cup {new}
      /\ tokens'[new] = TokenInfo(tranche, amount)
      /\ \A x \in DOMAIN tokens : tokens'[x] = tokens[x]
  BY <1>1 DEF Deposit, mint
<1>3. tranche[2] = kind
  OBVIOUS
<1> HIDE DEF new, tranche
<1>4. OutstandingIn(tokens') = OutstandingIn(tokens)
         + (IF tranche[2] = "senior" THEN amount ELSE 0)
  BY <1>1, <1>2, OutstandingMinted
<1>5. totalLoansOutstanding = OutstandingIn(tokens)
  BY LoansAre DEF LoansInv
<1>6. LoansMatchTokens'
  BY <1>3, <1>4, <1>5, LoansAre
<1>7. tokens'[new].principalRedeemed = 0 /\ tokens'[new].principalAmount = amount
  BY <1>2 DEF TokenInfo
<1>8. \A x \in DOMAIN tokens' : tokens'[x].principalRedeemed <= tokens'[x].principalAmount
  BY <1>2, <1>7 DEF LoansInv
<1> QED
  BY <1>6, <1>8 DEF LoansInv

LEMMA LoansKept ==
    ASSUME LoansInv, tokens' = tokens, totalLoansOutstanding' = totalLoansOutstanding
    PROVE  LoansInv'
<1>1. LoansMatchTokens'
  BY LoansAre DEF LoansInv
<1> QED
  BY <1>1 DEF LoansInv

LEMMA LoansStep ==
    ASSUME PoolInv, LoansInv, [SeniorNext]_AllVars
    PROVE  LoansInv'
<1>1. CASE PoolUnchanged /\ UNCHANGED loans
  BY <1>1, LoansKept DEF PoolUnchanged, loans, poolVars, tokenVars
<1>2. CASE \/ \E amount \in LPAmounts : SeniorDeposit(amount) \/ SeniorWithdraw(amount)
           \/ \E shares \in FiduAmounts : WithdrawInFidu(shares)
           \/ \E rounding \in 0..CompoundRounding : SweepToCompound(rounding)
           \/ SweepFromCompound
           \/ \E interest \in CompoundInterest : CompoundCredits(interest)
  BY <1>1, <1>2 DEF SeniorDeposit, SeniorWithdraw, WithdrawInFidu, Payout,
                    SweepToCompound, SweepFromCompound, CompoundCredits
<1>3. CASE Invest
  <2>1. /\ amountToInvest(slices[Current]) \in Nat
        /\ Deposit("senior", amountToInvest(slices[Current]))
    BY <1>3, InvestFacts
  <2>2. totalLoansOutstanding' = totalLoansOutstanding + amountToInvest(slices[Current])
    BY <1>3 DEF Invest
  <2> QED
    BY <2>1, <2>2, LoansMinted DEF Kinds
<1>4. CASE \E id \in Investments : RedeemInvestment(id)
  <2>1. PICK id \in Investments : RedeemInvestment(id)
    BY <1>4
  <2>2. /\ id \in DOMAIN tokens /\ Withdraw(id, Redeemable(id))
        /\ totalLoansOutstanding' = totalLoansOutstanding - PrincipalRedeemable(id)
    BY <2>1 DEF RedeemInvestment, PrincipalBack, Investments
  <2> QED
    BY <2>1, <2>2, LoansWithdrawn
<1>5. CASE \E id \in Investments : Writedown(id)
  BY <1>5, LoansKept DEF Writedown, PoolUnchanged, poolVars, tokenVars
<1>6. CASE TranchedPoolOnly
  <2>1. totalLoansOutstanding' = totalLoansOutstanding
    BY <1>6 DEF TranchedPoolOnly, seniorVars, loans
  <2>2. totalLoansOutstanding \in Int
    BY TokensCountable, OutstandingIsInt, LoansAre DEF LoansInv
  <2>3. CASE \E amount \in DepositAmounts : Deposit("junior", amount)
    BY <2>1, <2>2, <2>3, LoansMinted, TranchedPoolAssumption DEF Kinds
  <2>4. CASE \E id \in DOMAIN tokens \ Investments :
                TrancheOf(id).lockedUntil = 0 /\ Withdraw(id, Redeemable(id))
    BY <2>1, <2>2, <2>4, LoansWithdrawn
  <2>5. CASE \/ LockJuniorCapital
             \/ \E amount \in DrawAmounts : PoolDrawdown(amount)
             \/ PoolAssess
             \/ \E amount \in Amounts : PoolPay(amount)
             \/ CreditLineOnly
    BY <2>1, <2>5, LoansKept DEF LockJuniorCapital, PoolDrawdown, PoolAssess, PoolPay,
                                 CreditLineOnly, poolVars, tokenVars
  <2> QED
    BY <1>6, <2>3, <2>4, <2>5 DEF TranchedPoolOnly
<1>7. CASE UNCHANGED AllVars
  BY <1>1, <1>7 DEF AllVars, PoolUnchanged, seniorVars
<1> QED
  BY <1>2, <1>3, <1>4, <1>5, <1>6, <1>7 DEF SeniorNext

LEMMA LoansInit == SeniorInit => LoansInv
<1> SUFFICES ASSUME SeniorInit PROVE LoansInv
  OBVIOUS
<1>1. tokens = << >> /\ totalLoansOutstanding = 0 /\ DOMAIN tokens = {}
  BY DEF SeniorInit, PoolInit, TokensInit
<1> DEFINE f == [id \in {} |-> StillOut(tokens[id])]
<1>2. SeniorTokens(tokens) = {}
  BY <1>1 DEF SeniorTokens
<1>3. SumFunctionOnSet(f, {}) = 0
  BY SumOfNone
<1>4. OutstandingIn(tokens) = 0
  BY <1>2, <1>3 DEF OutstandingIn
<1> QED
  BY <1>1, <1>4, LoansAre DEF LoansInv

LEMMA LoansInvariant == SeniorSpec => []LoansInv
<1>1. AccountsInv => PoolInv
  BY DEF AccountsInv
<1>2. PoolInv /\ LoansInv /\ [SeniorNext]_AllVars => LoansInv'
  BY LoansStep
<1> QED
  BY <1>1, <1>2, LoansInit, PoolUnderSeniorInvariant, PTL DEF SeniorSpec, AllVars

\* What the senior pool counts as lent is what its tokens have still out, whatever is
\* invested, taken back before the lock, repaid and redeemed, in whatever order.
THEOREM LoansMatchTokensCorrect == SeniorSpec => []LoansMatchTokens
<1>1. LoansInv => LoansMatchTokens
  BY DEF LoansInv
<1> QED
  BY <1>1, LoansInvariant, PTL

-----------------------------------------------------------------------------
(* The senior pool's numbers.                                              *)

LEMMA Mantissas ==
    /\ FIDU_MANTISSA \in Nat \ {0} /\ USDC_MANTISSA \in Nat \ {0}
    /\ FIDU_MANTISSA \div USDC_MANTISSA \in Nat \ {0}
    /\ 100 \div ReserveFeePercent \in Nat \ {0}
<1> DEFINE F == FIDU_MANTISSA
           U == USDC_MANTISSA
           d == F \div U
           r == 100 \div ReserveFeePercent
<1>1. F \in Nat \ {0} /\ U \in Nat \ {0} /\ F % U = 0
  BY SeniorPoolAssumption
<1>2. d \in Nat /\ F = U * d + (F % U)
  BY <1>1
<1>3. ReserveFeePercent \in Nat \ {0} /\ ReserveFeePercent <= 100
  BY TranchingAssumption, SeniorPoolAssumption
<1>4. r \in Nat /\ 1 <= r
  <2>1. r \in Nat
    BY <1>3, FloorFacts
  <2>2. 1 * ReserveFeePercent <= 100
    BY <1>3
  <2> QED
    BY <1>3, <2>1, <2>2, FloorAbove
<1> HIDE DEF F, U, d
<1>5. d # 0
  <2> SUFFICES ASSUME d = 0 PROVE FALSE
    OBVIOUS
  <2>1. U * d = 0
    BY <1>1
  <2> QED
    BY <1>1, <1>2, <2>1
<1> QED
  BY <1>1, <1>2, <1>4, <1>5 DEF F, U, d

LEMMA ShareFacts ==
    ASSUME NEW a \in Nat, NEW p \in Nat
    PROVE  /\ usdcToFidu(a) \in Nat /\ fiduToUSDC(a) \in Nat
           /\ p > 0 => numShares(a, p) \in Nat
           /\ usdcFromShares(a, p) \in Nat
           /\ fidu \in Nat /\ fidu > 0 => priceOf(a) \in Nat
<1> DEFINE F == FIDU_MANTISSA
<1>1. F \in Nat \ {0} /\ USDC_MANTISSA \in Nat \ {0} /\ F \div USDC_MANTISSA \in Nat \ {0}
  BY Mantissas
<1>2. \A x \in Nat : x * F \in Nat
  BY <1>1
<1>3. usdcToFidu(a) \in Nat
  BY <1>1, <1>2, FloorFacts DEF usdcToFidu
<1>4. \A x \in Nat : fiduToUSDC(x) \in Nat
  BY <1>1, FloorFacts DEF fiduToUSDC
<1>5. p > 0 => numShares(a, p) \in Nat
  BY <1>2, <1>3, FloorFacts DEF numShares
<1>6. fidu \in Nat /\ fidu > 0 => priceOf(a) \in Nat
  BY <1>2, <1>3, FloorFacts DEF priceOf
<1>7. usdcFromShares(a, p) \in Nat
  <2>1. a * p \in Nat
    OBVIOUS
  <2>2. (a * p) \div F \in Nat
    BY <1>1, <2>1, FloorFacts
  <2> QED
    BY <1>4, <2>2 DEF usdcFromShares
<1> QED
  BY <1>3, <1>4, <1>5, <1>6, <1>7

\* The reserve takes a part of the interest.
LEMMA SweptFacts ==
    ASSUME SeniorPoolTypeOK, CanSweep
    PROVE  Swept.price \in Nat /\ Swept.usdc \in Nat
<1> DEFINE interest == onCompound - compoundBalance
           r == 100 \div ReserveFeePercent
           reserve == interest \div r
<1>1. /\ interest \in Nat /\ fidu \in Nat /\ fidu > 0 /\ sharePrice \in Nat
      /\ seniorCash \in Nat /\ onCompound \in Nat /\ interest <= onCompound
  BY DEF SeniorPoolTypeOK, CanSweep
<1>2. r \in Nat \ {0}
  BY Mantissas
<1> HIDE DEF interest, r
<1>3. reserve \in Nat /\ reserve * r <= interest
  BY <1>1, <1>2, FloorFacts
<1> HIDE DEF reserve
<1>4. reserve <= reserve * r
  BY <1>2, <1>3
<1>5. reserve * r \in Nat
  BY <1>2, <1>3
<1>6. interest - reserve \in Nat /\ onCompound - reserve \in Nat
  BY <1>1, <1>3, <1>4, <1>5
<1>7. priceOf(interest - reserve) \in Nat
  BY <1>1, <1>6, ShareFacts
<1>8. /\ Swept.price = sharePrice + priceOf(interest - reserve)
      /\ Swept.usdc = seniorCash + onCompound - reserve
  BY DEF Swept, interest, reserve, r
<1> QED
  BY <1>1, <1>6, <1>7, <1>8

LEMMA AfterSweepFacts ==
    ASSUME SeniorPoolTypeOK, MaySweepFirst
    PROVE  AfterSweep.price \in Nat /\ AfterSweep.usdc \in Nat
<1>1. CASE SweepFirst
  BY <1>1, SweptFacts DEF AfterSweep, MaySweepFirst
<1>2. CASE ~SweepFirst
  BY <1>2 DEF AfterSweep, SeniorPoolTypeOK
<1> QED
  BY <1>1, <1>2

\* A loan is written down by a part of what its token has still out.
LEMMA WritedownFacts ==
    ASSUME PoolInv, LoansInv, ScheduleInv, NEW id \in DOMAIN tokens
    PROVE  writedownAmount(id) \in Nat
<1> DEFINE F == FP_SCALING_FACTOR
           perYear == (balance * terms.interestApr) \div INTEREST_DECIMALS
           grace == LatenessGracePeriod * F
           out == tokens[id].principalAmount - tokens[id].principalRedeemed
<1>1. /\ F \in Nat \ {0} /\ grace \in Nat /\ INTEREST_DECIMALS \in Nat \ {0}
      /\ SECONDS_PER_YEAR \in Nat \ {0} /\ LatenessMaxDays \in Nat \ {0}
  BY TranchingAssumption, AccountantAssumption, SeniorPoolAssumption
<1>2. /\ balance \in Nat /\ interestOwed \in Nat /\ principalOwed \in Nat
      /\ now \in Nat /\ termEndTime \in Nat /\ terms \in LoanTerms
  BY CreditLineAssumption DEF ScheduleInv, TypeOK
<1>3. terms.interestApr \in Nat
  BY <1>2 DEF LoanTerms
<1>4. interestPerDay \in Nat
  <2>1. balance * terms.interestApr \in Nat
    BY <1>2, <1>3
  <2>2. perYear \in Nat
    BY <1>1, <2>1, FloorFacts
  <2>3. perYear * F \in Nat
    BY <1>1, <2>2
  <2>4. (perYear * F) \div SECONDS_PER_YEAR \in Nat
    BY <1>1, <2>3, FloorFacts
  <2> QED
    BY <2>4 DEF interestPerDay
<1>5. interestPerDay # 0 => daysLate \in Nat
  <2> SUFFICES ASSUME interestPerDay # 0 PROVE daysLate \in Nat
    OBVIOUS
  <2> DEFINE owed == (interestOwed + principalOwed) * F * F
             over == IF now > termEndTime THEN (now - termEndTime) * F ELSE 0
  <2>1. owed \in Nat
    BY <1>1, <1>2
  <2>2. over \in Nat
    BY <1>1, <1>2
  <2>3. daysLate = owed \div interestPerDay + over
    BY DEF daysLate
  <2> HIDE DEF owed, over
  <2>4. owed \div interestPerDay \in Nat
    BY <1>4, <2>1, FloorFacts
  <2> QED
    BY <2>2, <2>3, <2>4
<1>6. writedownPercent \in Nat
  <2>1. CASE interestPerDay = 0 \/ daysLate <= grace
    BY <2>1 DEF writedownPercent
  <2>2. CASE interestPerDay # 0 /\ ~(daysLate <= grace)
    <3>1. daysLate - grace \in Nat
      BY <1>1, <1>5, <2>2
    <3>2. (daysLate - grace) \div LatenessMaxDays \in Nat
      BY <1>1, <3>1, FloorFacts
    <3>3. writedownPercent = Smaller(F, (daysLate - grace) \div LatenessMaxDays)
      BY <2>2 DEF writedownPercent
    <3> QED
      BY <1>1, <3>2, <3>3 DEF Smaller
  <2> QED
    BY <2>1, <2>2
<1>7. out \in Nat
  BY TokenFacts DEF LoansInv
<1> HIDE DEF out, F
<1>8. writedownPercent * out \in Nat
  BY <1>6, <1>7
<1>9. (writedownPercent * out) \div F \in Nat
  BY <1>1, <1>8, FloorFacts
<1> QED
  BY <1>9 DEF writedownAmount, out, F

\* What capital providers call.
LEMMA SeniorDepositType ==
    ASSUME SeniorPoolTypeOK, NEW amount \in LPAmounts, SeniorDeposit(amount)
    PROVE  SeniorPoolTypeOK'
<1>1. amount \in Nat /\ MaxProviderCalls \in Nat
  BY SeniorPoolAssumption
<1>2. numShares(amount, sharePrice) \in Nat
  BY <1>1, ShareFacts DEF SeniorDeposit, SeniorPoolTypeOK
<1>3. seniorCash + amount \in Nat /\ fidu + numShares(amount, sharePrice) \in Nat
  BY <1>1, <1>2 DEF SeniorPoolTypeOK
<1>4. providerCalls' \in 0..MaxProviderCalls
  BY <1>1 DEF SeniorDeposit, SeniorPoolTypeOK
<1> QED
  BY <1>3, <1>4 DEF SeniorDeposit, SeniorPoolTypeOK, compound, loans

LEMMA PayoutType ==
    ASSUME SeniorPoolTypeOK, NEW amount \in Nat, NEW shares \in Nat, Payout(amount, shares)
    PROVE  SeniorPoolTypeOK'
<1>1. /\ AfterSweep.price \in Nat /\ AfterSweep.usdc \in Nat
      /\ amount <= AfterSweep.usdc
      /\ shares = fidu \/ fidu - shares >= KeptShares
      /\ fidu \in Nat /\ KeptShares \in Nat /\ MaxProviderCalls \in Nat
  BY AfterSweepFacts, SeniorPoolAssumption DEF Payout, SeniorPoolTypeOK
<1>2. AfterSweep.usdc - amount \in Nat /\ fidu - shares \in Nat
  BY <1>1
<1>3. providerCalls' \in 0..MaxProviderCalls
  BY <1>1 DEF Payout, SeniorPoolTypeOK
<1> QED
  BY <1>1, <1>2, <1>3 DEF Payout, NothingOnCompound, SeniorPoolTypeOK, loans

LEMMA WithdrawalType ==
    ASSUME SeniorPoolTypeOK,
           \/ \E amount \in LPAmounts : SeniorWithdraw(amount)
           \/ \E shares \in FiduAmounts : WithdrawInFidu(shares)
    PROVE  SeniorPoolTypeOK'
<1>1. ASSUME NEW amount \in LPAmounts, SeniorWithdraw(amount)
      PROVE  SeniorPoolTypeOK'
  <2>1. amount \in Nat /\ PriceToBurnAt \in Nat /\ PriceToBurnAt > 0
    BY <1>1, AfterSweepFacts, SeniorPoolAssumption DEF SeniorWithdraw, PriceToBurnAt
  <2>2. numShares(amount, PriceToBurnAt) \in Nat
    BY <2>1, ShareFacts
  <2> QED
    BY <1>1, <2>1, <2>2, PayoutType DEF SeniorWithdraw
<1>2. ASSUME NEW shares \in FiduAmounts, WithdrawInFidu(shares)
      PROVE  SeniorPoolTypeOK'
  <2>1. shares \in Nat /\ PriceToBurnAt \in Nat
    BY <1>2, AfterSweepFacts, SeniorPoolAssumption DEF WithdrawInFidu, PriceToBurnAt
  <2>2. usdcFromShares(shares, PriceToBurnAt) \in Nat
    BY <2>1, ShareFacts
  <2> QED
    BY <1>2, <2>1, <2>2, PayoutType DEF WithdrawInFidu
<1> QED
  BY <1>1, <1>2

\* What goes to Compound and comes back.
LEMMA CompoundType ==
    ASSUME SeniorPoolTypeOK,
           \/ \E rounding \in 0..CompoundRounding : SweepToCompound(rounding)
           \/ SweepFromCompound
           \/ \E interest \in CompoundInterest : CompoundCredits(interest)
    PROVE  SeniorPoolTypeOK'
<1>1. ASSUME NEW rounding \in 0..CompoundRounding, SweepToCompound(rounding)
      PROVE  SeniorPoolTypeOK'
  <2>1. seniorCash - rounding \in Nat
    BY <1>1, SeniorPoolAssumption DEF SweepToCompound, SeniorPoolTypeOK
  <2> QED
    BY <1>1, <2>1 DEF SweepToCompound, SeniorPoolTypeOK, lpVars, loans
<1>2. CASE SweepFromCompound
  <2>1. Swept.price \in Nat /\ Swept.usdc \in Nat
    BY <1>2, SweptFacts DEF SweepFromCompound
  <2> QED
    BY <1>2, <2>1 DEF SweepFromCompound, NothingOnCompound, SeniorPoolTypeOK, lpVars, loans
<1>3. ASSUME NEW interest \in CompoundInterest, CompoundCredits(interest)
      PROVE  SeniorPoolTypeOK'
  <2>1. interest \in Nat
    BY SeniorPoolAssumption
  <2> QED
    BY <1>3, <2>1 DEF CompoundCredits, SeniorPoolTypeOK, lpVars, loans
<1> QED
  BY <1>1, <1>2, <1>3

LEMMA InvestType ==
    ASSUME PoolInv, SeniorPoolTypeOK, Invest
    PROVE  SeniorPoolTypeOK'
<1> DEFINE amount == amountToInvest(slices[Current])
<1>1. amount \in Nat
  BY InvestFacts
<1>2. /\ AfterSweep.price \in Nat /\ AfterSweep.usdc \in Nat
      /\ amount <= AfterSweep.usdc
  BY AfterSweepFacts DEF Invest
<1>3. AfterSweep.usdc - amount \in Nat /\ totalLoansOutstanding + amount \in Nat
  BY <1>1, <1>2 DEF SeniorPoolTypeOK
<1> QED
  BY <1>2, <1>3 DEF Invest, NothingOnCompound, SeniorPoolTypeOK, lpVars

LEMMA RedemptionType ==
    ASSUME PoolInv, SeniorPoolTypeOK, NEW id \in Investments, RedeemInvestment(id)
    PROVE  SeniorPoolTypeOK'
<1>1. id \in DOMAIN tokens
  BY DEF Investments
<1>2. /\ PrincipalRedeemable(id) \in Nat /\ InterestRedeemable(id) \in Nat
      /\ Redeemable(id) \in Nat
  BY <1>1, RedeemableFacts DEF RedeemInvestment, Withdraw, Redeemable
<1>3. priceOf(InterestRedeemable(id)) \in Nat
  BY <1>2, ShareFacts DEF RedeemInvestment, SeniorPoolTypeOK
<1>4. totalLoansOutstanding - PrincipalBack(id) \in Nat
  BY <1>2 DEF RedeemInvestment, SeniorPoolTypeOK, PrincipalBack
<1>5. /\ sharePrice + priceOf(InterestRedeemable(id)) \in Nat
      /\ seniorCash + Redeemable(id) \in Nat
  BY <1>2, <1>3 DEF SeniorPoolTypeOK
<1> QED
  BY <1>4, <1>5 DEF RedeemInvestment, SeniorPoolTypeOK, lpVars, compound

LEMMA WritedownType ==
    ASSUME PoolInv, LoansInv, ScheduleInv, SeniorPoolTypeOK, NEW id \in Investments,
           Writedown(id)
    PROVE  SeniorPoolTypeOK'
<1> DEFINE amount == writedownAmount(id)
<1>1. amount \in Nat
  BY WritedownFacts DEF Investments
<1>2. TotalAfter(amount) = amount
  BY <1>1 DEF TotalAfter, SeniorPoolTypeOK
<1>3. PriceAfter(amount) \in Nat
  <2>1. /\ sharePrice \in Nat /\ writedowns \in Nat
        /\ fidu > 0 /\ PriceAfter(amount) >= 0
    BY DEF Writedown, SeniorPoolTypeOK
  <2> HIDE DEF amount
  <2>2. CASE amount < writedowns
    <3>1. writedowns - amount \in Nat /\ fidu \in Nat
      BY <1>1, <2>1, <2>2 DEF SeniorPoolTypeOK
    <3>2. priceOf(writedowns - amount) \in Nat
      BY <2>1, <3>1, ShareFacts
    <3> QED
      BY <2>1, <2>2, <3>2 DEF PriceAfter
  <2>3. CASE ~(amount < writedowns)
    <3>1. amount - writedowns \in Nat /\ fidu \in Nat
      BY <1>1, <2>1, <2>3 DEF SeniorPoolTypeOK
    <3>2. priceOf(amount - writedowns) \in Nat
      BY <2>1, <3>1, ShareFacts
    <3> QED
      BY <2>1, <2>3, <3>2 DEF PriceAfter
  <2> QED
    BY <2>2, <2>3
<1> QED
  BY <1>1, <1>2, <1>3 DEF Writedown, SeniorPoolTypeOK, lpVars, compound

LEMMA SeniorTypeStep ==
    ASSUME PoolInv, LoansInv, ScheduleInv, SeniorPoolTypeOK, [SeniorNext]_AllVars
    PROVE  SeniorPoolTypeOK'
<1>1. CASE TranchedPoolOnly \/ UNCHANGED AllVars
  BY <1>1 DEF TranchedPoolOnly, AllVars, seniorVars, lpVars, compound, loans,
              SeniorPoolTypeOK
<1> QED
  BY <1>1, SeniorDepositType, WithdrawalType, CompoundType, InvestType, RedemptionType,
     WritedownType DEF SeniorNext

\* No subtraction of the senior pool goes below zero, the share price included, and
\* what is written down is written down in the tranched pool's record too.
THEOREM SeniorPoolTypeCorrect == SeniorSpec => []SeniorPoolTypeOK
<1>1. SeniorInit => SeniorPoolTypeOK
  BY SeniorPoolAssumption DEF SeniorInit, SeniorPoolTypeOK
<1>2. AccountsInv => PoolInv
  BY DEF AccountsInv
<1>3. PoolInv /\ LoansInv /\ ScheduleInv /\ SeniorPoolTypeOK /\ [SeniorNext]_AllVars
        => SeniorPoolTypeOK'
  BY SeniorTypeStep
<1> QED
  BY <1>1, <1>2, <1>3, LoansInvariant, PoolUnderSeniorInvariant, PTL DEF SeniorSpec, AllVars

-----------------------------------------------------------------------------
(* What the shares are worth.                                              *)

LEMMA UnitFacts ==
    LET d == FIDU_MANTISSA \div USDC_MANTISSA
    IN  /\ d \in Nat \ {0} /\ FIDU_MANTISSA = d * USDC_MANTISSA
        /\ UsdcUnit = FIDU_MANTISSA * d /\ UsdcUnit \in Nat
<1> DEFINE F == FIDU_MANTISSA
           U == USDC_MANTISSA
           d == F \div U
<1>1. F \in Nat /\ U \in Nat \ {0} /\ F % U = 0 /\ d \in Nat \ {0}
  BY Mantissas, SeniorPoolAssumption
<1>2. UsdcUnit = F * d
  BY DEF UsdcUnit
<1>3. F = U * d + (F % U)
  BY <1>1
<1> HIDE DEF d, F, U
<1>4. F = d * U /\ F * d \in Nat
  BY <1>1, <1>3
<1> QED BY <1>1, <1>2, <1>4 DEF d, F, U

\* USDC is worth whole units of FIDU.
LEMMA ToFidu ==
    ASSUME NEW a \in Nat
    PROVE  usdcToFidu(a) * FIDU_MANTISSA = a * UsdcUnit
<1> DEFINE F == FIDU_MANTISSA
           U == USDC_MANTISSA
           d == F \div U
           x == a * d
<1>1. F \in Nat /\ U \in Nat \ {0} /\ d \in Nat /\ F = d * U /\ UsdcUnit = F * d
  BY UnitFacts, SeniorPoolAssumption
<1>2. usdcToFidu(a) = (a * F) \div U
  BY DEF usdcToFidu
<1> HIDE DEF F, U, d, x
<1>3. x \in Nat /\ a * F \in Nat /\ a * F = x * U
  BY <1>1 DEF x
<1>4. (x + 1) * U = x * U + U
  BY <1>1, <1>3
<1>5. x * U <= a * F /\ a * F < (x + 1) * U
  BY <1>1, <1>3, <1>4
<1>6. (a * F) \div U <= x /\ x <= (a * F) \div U /\ (a * F) \div U \in Nat
  BY <1>1, <1>3, <1>5, FloorFacts, FloorBelow, FloorAbove
<1>7. usdcToFidu(a) = x
  BY <1>2, <1>3, <1>6
<1>8. x * F = a * (F * d)
  BY <1>1 DEF x
<1> QED BY <1>1, <1>7, <1>8 DEF F

\* What is credited, or lost, for each share is less than a unit of the price short.
LEMMA PriceRounds ==
    ASSUME NEW a \in Nat, fidu \in Nat, fidu > 0
    PROVE  /\ priceOf(a) \in Nat
           /\ fidu * priceOf(a) <= a * UsdcUnit
           /\ a * UsdcUnit < fidu * priceOf(a) + fidu
<1> DEFINE v == a * UsdcUnit
           x == priceOf(a)
<1>1. x = v \div fidu
  BY ToFidu DEF priceOf
<1>2. v \in Nat
  BY UnitFacts
<1> HIDE DEF v, x
<1>3. x \in Nat /\ x * fidu <= v /\ v < (x + 1) * fidu
  BY <1>1, <1>2, FloorFacts
<1>4. x * fidu = fidu * x /\ (x + 1) * fidu = fidu * x + fidu
  BY <1>3
<1> QED BY <1>3, <1>4 DEF v, x

\* The shares for an amount are less than a unit short of it.
LEMMA SharesRound ==
    ASSUME NEW a \in Nat, NEW p \in Nat, p > 0
    PROVE  /\ numShares(a, p) \in Nat
           /\ numShares(a, p) * p <= a * UsdcUnit
           /\ a * UsdcUnit < numShares(a, p) * p + p
<1> DEFINE v == a * UsdcUnit
           x == numShares(a, p)
<1>1. x = v \div p
  BY ToFidu DEF numShares
<1>2. v \in Nat
  BY UnitFacts
<1> HIDE DEF v, x
<1>3. x \in Nat /\ x * p <= v /\ v < (x + 1) * p
  BY <1>1, <1>2, FloorFacts
<1>4. (x + 1) * p = x * p + p
  BY <1>3
<1> QED BY <1>3, <1>4 DEF v, x

\* The USDC for some shares is less than a unit short of what they are worth.
LEMMA UsdcRounds ==
    ASSUME NEW s \in Nat, NEW p \in Nat
    PROVE  /\ usdcFromShares(s, p) \in Nat
           /\ usdcFromShares(s, p) * UsdcUnit <= s * p
           /\ s * p < usdcFromShares(s, p) * UsdcUnit + UsdcUnit
<1> DEFINE F == FIDU_MANTISSA
           d == F \div USDC_MANTISSA
           v == s * p
           q == v \div F
           a == usdcFromShares(s, p)
<1>1. F \in Nat \ {0} /\ d \in Nat \ {0} /\ UsdcUnit = F * d
  BY UnitFacts, SeniorPoolAssumption
<1>2. v \in Nat
  OBVIOUS
<1>3. a = q \div d
  BY DEF usdcFromShares, fiduToUSDC
<1> HIDE DEF F, d, v, a
<1>4. q \in Nat /\ q * F <= v /\ v < (q + 1) * F
  BY <1>1, <1>2, FloorFacts
<1> HIDE DEF q
<1>5. a \in Nat /\ a * d <= q /\ q < (a + 1) * d
  BY <1>1, <1>3, <1>4, FloorFacts
<1>6. (a * d) * F <= q * F
  <2>1. a * d \in Nat
    BY <1>1, <1>5
  <2> QED BY <1>1, <1>4, <1>5, <2>1
<1>7. (q + 1) * F <= ((a + 1) * d) * F
  <2>1. (a + 1) * d \in Nat
    BY <1>1, <1>5
  <2>2. q + 1 <= (a + 1) * d
    BY <1>4, <1>5, <2>1
  <2> QED BY <1>1, <1>4, <2>1, <2>2
<1>8. (a * d) * F = a * UsdcUnit /\ ((a + 1) * d) * F = a * UsdcUnit + UsdcUnit
  BY <1>1, <1>5
<1>9. a * UsdcUnit \in Nat /\ UsdcUnit \in Nat /\ q * F \in Nat /\ (q + 1) * F \in Nat
  BY <1>1, <1>4, <1>5
<1> QED BY <1>2, <1>4, <1>5, <1>6, <1>7, <1>8, <1>9 DEF v, a

Products(a, b, c) ==
    /\ a * c \in Int /\ b * c \in Int
    /\ (a + b) * c = a * c + b * c /\ (a - b) * c = a * c - b * c
    /\ c * (a + b) = c * a + c * b /\ c * (a - b) = c * a - c * b
    /\ c * a \in Int /\ c * b \in Int

LEMMA Distributes ==
    ASSUME NEW a \in Int, NEW b \in Int, NEW c \in Int
    PROVE  Products(a, b, c)
BY DEF Products

\* What a sweep adds to the assets, it adds to what the shares are worth.
LEMMA SweepRounds ==
    ASSUME SeniorPoolTypeOK, MaySweepFirst
    PROVE  LET p == AfterSweep.price
               gain == AfterSweep.usdc - seniorCash - compoundBalance
               moved == fidu * p - fidu * sharePrice - gain * UsdcUnit
           IN  /\ p \in Nat /\ AfterSweep.usdc \in Nat
               /\ moved \in Int /\ moved <= 0 /\ -fidu <= moved
<1> DEFINE p == AfterSweep.price
           held == AfterSweep.usdc
           gain == held - seniorCash - compoundBalance
           moved == fidu * p - fidu * sharePrice - gain * UsdcUnit
<1>1. p \in Nat /\ held \in Nat
  BY AfterSweepFacts
<1>2. fidu \in Nat /\ sharePrice \in Nat /\ seniorCash \in Nat /\ compoundBalance \in Nat
      /\ onCompound \in Nat /\ UsdcUnit \in Nat
  BY UnitFacts DEF SeniorPoolTypeOK
<1>3. CASE SweepFirst
  <2> DEFINE interest == onCompound - compoundBalance
             r == 100 \div ReserveFeePercent
             reserve == interest \div r
             g == interest - reserve
  <2>1. CanSweep /\ fidu > 0 /\ interest \in Nat
    BY <1>2, <1>3 DEF MaySweepFirst, CanSweep
  <2>2. r \in Nat \ {0}
    BY Mantissas
  <2>3. p = sharePrice + priceOf(g) /\ held = seniorCash + onCompound - reserve
    BY <1>3 DEF AfterSweep, Swept
  <2> HIDE DEF r
  <2>4. reserve \in Nat /\ reserve <= interest
    <3> HIDE DEF interest
    <3>1. reserve \in Nat /\ reserve * r <= interest
      BY <2>1, <2>2, FloorFacts
    <3> HIDE DEF reserve
    <3>2. reserve <= reserve * r /\ reserve * r \in Nat
      BY <2>2, <3>1
    <3> QED BY <2>1, <3>1, <3>2
  <2>5. g \in Nat
    <3> HIDE DEF reserve, interest
    <3> QED BY <2>1, <2>4
  <2>6. gain = g
    <3> HIDE DEF p, held, reserve
    <3> QED BY <1>1, <1>2, <2>3, <2>4
  <2> HIDE DEF p, held, g, gain, reserve
  <2>7. /\ priceOf(g) \in Nat /\ fidu * priceOf(g) <= g * UsdcUnit
        /\ g * UsdcUnit < fidu * priceOf(g) + fidu
    BY <1>2, <2>1, <2>5, PriceRounds
  <2>8. Products(sharePrice, priceOf(g), fidu)
    BY <1>2, <2>7, Distributes
  <2>9. fidu * p = fidu * sharePrice + fidu * priceOf(g)
    BY <2>3, <2>8 DEF Products
  <2>10. g * UsdcUnit \in Nat
    BY <1>2, <2>5
  <2>11. fidu * sharePrice \in Int /\ fidu * priceOf(g) \in Int
    BY <2>8 DEF Products
  <2>12. moved = fidu * priceOf(g) - g * UsdcUnit
    BY <2>6, <2>9, <2>10, <2>11
  <2>13. moved \in Int /\ moved <= 0 /\ -fidu <= moved
    <3> HIDE DEF moved
    <3> QED BY <1>2, <2>7, <2>10, <2>11, <2>12
  <2> QED BY <1>1, <2>13 DEF p, held, gain, moved
<1>4. CASE ~SweepFirst
  <2>1. p = sharePrice /\ held = seniorCash /\ compoundBalance = 0
    BY <1>2, <1>4 DEF AfterSweep, SweepFirst
  <2> HIDE DEF p, held
  <2>2. gain = 0 /\ fidu * sharePrice \in Int
    BY <1>2, <2>1
  <2>3. gain * UsdcUnit = 0
    BY <1>2, <2>2
  <2> HIDE DEF gain
  <2>4. moved = 0
    BY <2>1, <2>2, <2>3
  <2> HIDE DEF moved
  <2> QED BY <1>1, <1>2, <2>4 DEF p, held, gain, moved
<1> QED BY <1>3, <1>4

\* What WorthFollowsAssets asks of a step.
Followed ==
    LET rounding == fidu + sharePrice'
        moved    == fidu' * sharePrice' - fidu * sharePrice - (Assets' - Assets) * UsdcUnit
    IN  moved \in (-(rounding + UsdcUnit))..rounding

\* A payout leaves the assets by what the shares burned are worth, but for `rest`.
LEMMA PayoutFollowed ==
    ASSUME SeniorPoolTypeOK, NEW amount \in Nat, NEW shares \in Nat, Payout(amount, shares),
           LET rest == amount * UsdcUnit - shares * AfterSweep.price
           IN  -UsdcUnit <= rest /\ rest <= AfterSweep.price
    PROVE  Followed
<1> DEFINE p == AfterSweep.price
           held == AfterSweep.usdc
           gain == held - seniorCash - compoundBalance
           excess == fidu * p - fidu * sharePrice - gain * UsdcUnit
           rest == amount * UsdcUnit - shares * p
           moved == fidu' * sharePrice' - fidu * sharePrice - (Assets' - Assets) * UsdcUnit
<1>1. p \in Nat /\ held \in Nat /\ excess \in Int /\ excess <= 0 /\ -fidu <= excess
  BY SweepRounds DEF Payout
<1>2. /\ fidu \in Nat /\ sharePrice \in Nat /\ seniorCash \in Nat /\ compoundBalance \in Nat
      /\ totalLoansOutstanding \in Nat /\ totalWritedowns \in Nat /\ UsdcUnit \in Nat
  BY UnitFacts DEF SeniorPoolTypeOK
<1>3. /\ sharePrice' = p /\ seniorCash' = held - amount /\ fidu' = fidu - shares
      /\ compoundBalance' = 0
      /\ totalLoansOutstanding' = totalLoansOutstanding /\ totalWritedowns' = totalWritedowns
  BY DEF Payout, NothingOnCompound, loans
<1> HIDE DEF p, held
<1>4. Assets' - Assets = gain - amount
  BY <1>1, <1>2, <1>3 DEF Assets, assetsWith
<1>5. gain \in Int
  BY <1>1, <1>2
<1> HIDE DEF gain
<1>6. Products(gain, amount, UsdcUnit) /\ Products(fidu, shares, p) /\ fidu * sharePrice \in Int
  BY <1>1, <1>2, <1>5, Distributes
<1>7. /\ (gain - amount) * UsdcUnit = gain * UsdcUnit - amount * UsdcUnit
      /\ (fidu - shares) * p = fidu * p - shares * p
      /\ gain * UsdcUnit \in Int /\ amount * UsdcUnit \in Int
      /\ fidu * p \in Int /\ shares * p \in Int
  BY <1>6 DEF Products
<1>8. moved = (fidu * p - shares * p) - fidu * sharePrice
                - (gain * UsdcUnit - amount * UsdcUnit)
  BY <1>3, <1>4, <1>7
<1>9. moved = excess + rest
  <2> DEFINE a == fidu * p
             b == shares * p
             c == fidu * sharePrice
             g == gain * UsdcUnit
             h == amount * UsdcUnit
  <2>1. a \in Int /\ b \in Int /\ c \in Int /\ g \in Int /\ h \in Int
    BY <1>6, <1>7
  <2>2. moved = (a - b) - c - (g - h) /\ excess = a - c - g /\ rest = h - b
    BY <1>8
  <2> HIDE DEF a, b, c, g, h, moved, excess, rest
  <2> QED BY <2>1, <2>2
<1>10. -UsdcUnit <= rest /\ rest <= p /\ rest \in Int
  BY <1>7 DEF p
<1> HIDE DEF excess, rest, moved
<1>11. moved \in (-(fidu + p + UsdcUnit))..(fidu + p)
  BY <1>1, <1>2, <1>9, <1>10
<1> QED BY <1>3, <1>11 DEF Followed, moved

LEMMA WithdrawalFollowed ==
    ASSUME SeniorPoolTypeOK,
           \/ \E amount \in LPAmounts : SeniorWithdraw(amount)
           \/ \E shares \in FiduAmounts : WithdrawInFidu(shares)
    PROVE  Followed
<1>1. ASSUME NEW amount \in LPAmounts, SeniorWithdraw(amount) PROVE Followed
  <2> DEFINE p == AfterSweep.price
             shares == numShares(amount, p)
  <2>1. amount \in Nat /\ p \in Nat /\ p > 0 /\ UsdcUnit \in Nat /\ Payout(amount, shares)
    BY <1>1, AfterSweepFacts, SeniorPoolAssumption, UnitFacts
    DEF SeniorWithdraw, PriceToBurnAt
  <2> HIDE DEF p
  <2>2. /\ shares \in Nat /\ shares * p <= amount * UsdcUnit
        /\ amount * UsdcUnit < shares * p + p
    BY <2>1, SharesRound
  <2>3. amount * UsdcUnit \in Nat /\ shares * p \in Nat
    BY <2>1, <2>2
  <2> HIDE DEF shares
  <2>4. LET rest == amount * UsdcUnit - shares * p
        IN  -UsdcUnit <= rest /\ rest <= p
    BY <2>1, <2>2, <2>3
  <2> QED BY <2>1, <2>2, <2>4, PayoutFollowed DEF p
<1>2. ASSUME NEW shares \in FiduAmounts, WithdrawInFidu(shares) PROVE Followed
  <2> DEFINE p == AfterSweep.price
             amount == usdcFromShares(shares, p)
  <2>1. shares \in Nat /\ p \in Nat /\ UsdcUnit \in Nat /\ Payout(amount, shares)
    BY <1>2, AfterSweepFacts, SeniorPoolAssumption, UnitFacts
    DEF WithdrawInFidu, PriceToBurnAt
  <2> HIDE DEF p
  <2>2. /\ amount \in Nat /\ amount * UsdcUnit <= shares * p
        /\ shares * p < amount * UsdcUnit + UsdcUnit
    BY <2>1, UsdcRounds
  <2>3. amount * UsdcUnit \in Nat /\ shares * p \in Nat
    BY <2>1, <2>2
  <2> HIDE DEF amount
  <2>4. LET rest == amount * UsdcUnit - shares * p
        IN  -UsdcUnit <= rest /\ rest <= p
    BY <2>1, <2>2, <2>3
  <2> QED BY <2>1, <2>2, <2>4, PayoutFollowed DEF p
<1> QED BY <1>1, <1>2

LEMMA DepositFollowed ==
    ASSUME SeniorPoolTypeOK, NEW amount \in LPAmounts, SeniorDeposit(amount)
    PROVE  Followed
<1> DEFINE s == numShares(amount, sharePrice)
           moved == fidu' * sharePrice' - fidu * sharePrice - (Assets' - Assets) * UsdcUnit
<1>1. /\ amount \in Nat /\ fidu \in Nat /\ sharePrice \in Nat /\ sharePrice > 0
      /\ seniorCash \in Nat /\ compoundBalance \in Nat
      /\ totalLoansOutstanding \in Nat /\ totalWritedowns \in Nat /\ UsdcUnit \in Nat
  BY UnitFacts, SeniorPoolAssumption DEF SeniorPoolTypeOK, SeniorDeposit
<1>2. /\ fidu' = fidu + s /\ sharePrice' = sharePrice /\ seniorCash' = seniorCash + amount
      /\ compoundBalance' = compoundBalance
      /\ totalLoansOutstanding' = totalLoansOutstanding /\ totalWritedowns' = totalWritedowns
  BY DEF SeniorDeposit, compound, loans
<1>3. /\ s \in Nat /\ s * sharePrice <= amount * UsdcUnit
      /\ amount * UsdcUnit < s * sharePrice + sharePrice
  BY <1>1, SharesRound
<1> HIDE DEF s
<1>4. Assets' - Assets = amount
  BY <1>1, <1>2 DEF Assets, assetsWith
<1>5. Products(fidu, s, sharePrice) /\ amount * UsdcUnit \in Nat
  BY <1>1, <1>3, Distributes
<1>6. /\ (fidu + s) * sharePrice = fidu * sharePrice + s * sharePrice
      /\ fidu * sharePrice \in Int /\ s * sharePrice \in Int
  BY <1>5 DEF Products
<1>7. moved = s * sharePrice - amount * UsdcUnit
  BY <1>2, <1>4, <1>5, <1>6
<1> HIDE DEF moved
<1>8. moved \in (-(fidu + sharePrice + UsdcUnit))..(fidu + sharePrice)
  BY <1>1, <1>3, <1>5, <1>6, <1>7
<1> QED BY <1>2, <1>8 DEF Followed, moved

\* The price moves by `change`, with the assets, and the supply stays.
LEMMA PriceFollowed ==
    ASSUME SeniorPoolTypeOK, SeniorPoolTypeOK', fidu' = fidu, NEW up \in Nat, fidu > 0,
           \/ sharePrice' = sharePrice + priceOf(up) /\ Assets' - Assets = up
           \/ sharePrice' = sharePrice - priceOf(up) /\ Assets' - Assets = -up
    PROVE  Followed
<1> DEFINE c == priceOf(up)
           moved == fidu' * sharePrice' - fidu * sharePrice - (Assets' - Assets) * UsdcUnit
<1>1. fidu \in Nat /\ sharePrice \in Nat /\ sharePrice' \in Nat /\ UsdcUnit \in Nat
  BY UnitFacts DEF SeniorPoolTypeOK
<1>2. c \in Nat /\ fidu * c <= up * UsdcUnit /\ up * UsdcUnit < fidu * c + fidu
  BY <1>1, PriceRounds
<1> HIDE DEF c
<1>3. /\ fidu * (sharePrice + c) = fidu * sharePrice + fidu * c
      /\ fidu * (sharePrice - c) = fidu * sharePrice - fidu * c
      /\ fidu * sharePrice \in Int /\ fidu * c \in Int
  BY <1>1, <1>2, Distributes DEF Products
<1>4. up * UsdcUnit \in Nat /\ (-up) * UsdcUnit = -(up * UsdcUnit)
  BY <1>1
<1>5. moved = fidu * c - up * UsdcUnit \/ moved = up * UsdcUnit - fidu * c
  <2>1. CASE sharePrice' = sharePrice + c /\ Assets' - Assets = up
    BY <1>3, <1>4, <2>1
  <2>2. CASE sharePrice' = sharePrice - c /\ Assets' - Assets = -up
    BY <1>3, <1>4, <2>2
  <2> QED BY <2>1, <2>2 DEF c
<1> HIDE DEF moved
<1>6. moved \in (-(fidu + sharePrice' + UsdcUnit))..(fidu + sharePrice')
  BY <1>1, <1>2, <1>3, <1>4, <1>5
<1> QED BY <1>6 DEF Followed, moved

\* Neither price and supply nor the assets move.
LEMMA StillFollowed ==
    ASSUME SeniorPoolTypeOK, fidu' = fidu, sharePrice' = sharePrice, Assets' = Assets
    PROVE  Followed
<1>1. fidu \in Nat /\ sharePrice \in Nat /\ UsdcUnit \in Nat /\ Assets \in Int
  BY UnitFacts DEF SeniorPoolTypeOK, Assets, assetsWith
<1>2. fidu * sharePrice \in Int /\ (Assets - Assets) * UsdcUnit = 0
  BY <1>1
<1> HIDE DEF Assets
<1> QED BY <1>1, <1>2 DEF Followed

\* A sweep, and an investment, which makes a loan of what it takes.
LEMMA SweepFollowed ==
    ASSUME SeniorPoolTypeOK, MaySweepFirst, fidu' = fidu, sharePrice' = AfterSweep.price,
           NEW invested \in Nat, seniorCash' = AfterSweep.usdc - invested,
           totalLoansOutstanding' = totalLoansOutstanding + invested,
           compoundBalance' = 0, totalWritedowns' = totalWritedowns
    PROVE  Followed
<1> DEFINE p == AfterSweep.price
           held == AfterSweep.usdc
           gain == held - seniorCash - compoundBalance
           excess == fidu * p - fidu * sharePrice - gain * UsdcUnit
<1>1. p \in Nat /\ held \in Nat /\ excess \in Int /\ excess <= 0 /\ -fidu <= excess
  BY SweepRounds
<1>2. /\ fidu \in Nat /\ seniorCash \in Nat /\ compoundBalance \in Nat
      /\ totalLoansOutstanding \in Nat /\ totalWritedowns \in Nat /\ UsdcUnit \in Nat
  BY UnitFacts DEF SeniorPoolTypeOK
<1>3. sharePrice' = p
  OBVIOUS
<1> HIDE DEF p
<1>4. Assets' - Assets = gain
  <2>1. /\ seniorCash' = held - invested
        /\ totalLoansOutstanding' = totalLoansOutstanding + invested
    OBVIOUS
  <2> HIDE DEF held, excess
  <2> QED BY <1>1, <1>2, <2>1 DEF Assets, assetsWith
<1>5. fidu' * sharePrice' - fidu * sharePrice - (Assets' - Assets) * UsdcUnit = excess
  BY <1>3, <1>4
<1> HIDE DEF excess
<1>6. excess \in (-(fidu + p + UsdcUnit))..(fidu + p)
  BY <1>1, <1>2
<1> QED BY <1>3, <1>5, <1>6 DEF Followed

LEMMA CompoundFollowed ==
    ASSUME SeniorPoolTypeOK,
           \/ \E rounding \in 0..CompoundRounding : SweepToCompound(rounding)
           \/ SweepFromCompound
           \/ \E interest \in CompoundInterest : CompoundCredits(interest)
    PROVE  Followed
<1>1. CASE \E rounding \in 0..CompoundRounding : SweepToCompound(rounding)
  <2>1. /\ compoundBalance = 0 /\ compoundBalance' = seniorCash /\ seniorCash' = 0
        /\ UNCHANGED <<sharePrice, fidu, totalLoansOutstanding, totalWritedowns>>
    BY <1>1 DEF SweepToCompound, lpVars, loans
  <2>2. Assets' = Assets
    BY <2>1 DEF SeniorPoolTypeOK, Assets, assetsWith
  <2> QED BY <2>1, <2>2, StillFollowed
<1>2. CASE SweepFromCompound
  <2>1. /\ MaySweepFirst /\ sharePrice' = AfterSweep.price /\ seniorCash' = AfterSweep.usdc
        /\ compoundBalance' = 0
        /\ UNCHANGED <<fidu, totalLoansOutstanding, totalWritedowns>>
    BY <1>2 DEF SweepFromCompound, MaySweepFirst, AfterSweep, NothingOnCompound, lpVars, loans
  <2>2. /\ seniorCash' = AfterSweep.usdc - 0
        /\ totalLoansOutstanding' = totalLoansOutstanding + 0
    BY <2>1, AfterSweepFacts DEF SeniorPoolTypeOK
  <2> QED BY <2>1, <2>2, SweepFollowed
<1>3. CASE \E interest \in CompoundInterest : CompoundCredits(interest)
  <2>1. UNCHANGED <<sharePrice, fidu, seniorCash, compoundBalance, totalLoansOutstanding,
                    totalWritedowns>>
    BY <1>3 DEF CompoundCredits, lpVars, loans
  <2>2. Assets' = Assets
    BY <2>1 DEF Assets, assetsWith
  <2> QED BY <2>1, <2>2, StillFollowed
<1> QED BY <1>1, <1>2, <1>3

LEMMA InvestFollowed ==
    ASSUME PoolInv, SeniorPoolTypeOK, Invest
    PROVE  Followed
<1> DEFINE amount == amountToInvest(slices[Current])
<1>1. amount \in Nat
  BY InvestFacts
<1>2. /\ MaySweepFirst /\ sharePrice' = AfterSweep.price /\ amount <= AfterSweep.usdc
      /\ seniorCash' = AfterSweep.usdc - amount /\ compoundBalance' = 0
      /\ totalLoansOutstanding' = totalLoansOutstanding + amount
      /\ fidu' = fidu /\ totalWritedowns' = totalWritedowns
  BY DEF Invest, NothingOnCompound, lpVars
<1> HIDE DEF amount
<1> QED BY <1>1, <1>2, SweepFollowed

LEMMA RedemptionFollowed ==
    ASSUME PoolInv, SeniorPoolTypeOK, SeniorPoolTypeOK', NEW id \in Investments,
           RedeemInvestment(id)
    PROVE  Followed
<1> DEFINE up == InterestRedeemable(id)
           back == PrincipalRedeemable(id)
<1>1. up \in Nat /\ back \in Nat
  <2>1. id \in DOMAIN tokens
    BY DEF Investments
  <2> QED BY <2>1, RedeemableFacts DEF RedeemInvestment, Withdraw, Redeemable
<1>2. Redeemable(id) = up + back
  BY DEF Redeemable
<1>3. /\ fidu > 0 /\ sharePrice' = sharePrice + priceOf(up)
      /\ seniorCash' = seniorCash + Redeemable(id)
      /\ totalLoansOutstanding' = totalLoansOutstanding - back
      /\ UNCHANGED <<fidu, compoundBalance, totalWritedowns>>
  BY DEF RedeemInvestment, PrincipalBack, lpVars, compound
<1> HIDE DEF up, back
<1>4. Assets' - Assets = up
  BY <1>1, <1>2, <1>3 DEF SeniorPoolTypeOK, Assets, assetsWith
<1> QED BY <1>1, <1>3, <1>4, PriceFollowed

\* What is written down lowers the price, what is undone of it raises it.
LEMMA WritedownFollowed ==
    ASSUME PoolInv, LoansInv, ScheduleInv, SeniorPoolTypeOK, SeniorPoolTypeOK',
           NEW id \in Investments, Writedown(id)
    PROVE  Followed
<1> DEFINE amount == writedownAmount(id)
<1>1. amount \in Nat /\ writedowns \in Nat
  BY WritedownFacts DEF Investments, SeniorPoolTypeOK
<1>2. /\ fidu > 0 /\ sharePrice' = PriceAfter(amount) /\ totalWritedowns' = TotalAfter(amount)
      /\ UNCHANGED <<fidu, seniorCash, compoundBalance, totalLoansOutstanding>>
  BY DEF Writedown, lpVars, compound
<1> HIDE DEF amount
<1>3. Assets' - Assets = writedowns - amount
  BY <1>1, <1>2 DEF SeniorPoolTypeOK, Assets, assetsWith, TotalAfter
<1>4. CASE amount < writedowns
  <2> DEFINE up == writedowns - amount
  <2>1. up \in Nat /\ sharePrice' = sharePrice + priceOf(up) /\ Assets' - Assets = up
    BY <1>1, <1>2, <1>3, <1>4 DEF PriceAfter
  <2> HIDE DEF up
  <2> QED BY <1>2, <2>1, PriceFollowed
<1>5. CASE ~(amount < writedowns)
  <2> DEFINE up == amount - writedowns
  <2>1. up \in Nat /\ -up = writedowns - amount
    BY <1>1, <1>5
  <2>2. sharePrice' = sharePrice - priceOf(up) /\ Assets' - Assets = -up
    BY <1>2, <1>3, <1>5, <2>1 DEF PriceAfter
  <2> HIDE DEF up
  <2> QED BY <1>2, <2>1, <2>2, PriceFollowed
<1> QED BY <1>4, <1>5

LEMMA SeniorStepFollowed ==
    ASSUME PoolInv, LoansInv, ScheduleInv, SeniorPoolTypeOK, [SeniorNext]_AllVars
    PROVE  Followed
<1>1. SeniorPoolTypeOK'
  BY SeniorTypeStep
<1>2. CASE TranchedPoolOnly \/ UNCHANGED AllVars
  <2>1. UNCHANGED <<sharePrice, fidu, seniorCash, compoundBalance, totalLoansOutstanding,
                    totalWritedowns>>
    BY <1>2 DEF TranchedPoolOnly, AllVars, seniorVars, lpVars, compound, loans
  <2>2. Assets' = Assets
    BY <2>1 DEF Assets, assetsWith
  <2> QED BY <2>1, <2>2, StillFollowed
<1> QED
  BY <1>1, <1>2, DepositFollowed, WithdrawalFollowed, CompoundFollowed, InvestFollowed,
     RedemptionFollowed, WritedownFollowed DEF SeniorNext

\* What the shares are worth follows the assets in every step, through sweeps,
\* withdrawals in USDC or FIDU, redemptions, and writedowns made and undone at other
\* supplies, but for what the divisions of that one step round off.
THEOREM WorthFollowsAssetsCorrect == SeniorSpec => WorthFollowsAssets
<1>1. AccountsInv => PoolInv
  BY DEF AccountsInv
<1>2. PoolInv /\ LoansInv /\ ScheduleInv /\ SeniorPoolTypeOK /\ [SeniorNext]_AllVars
        => [Followed]_AllVars
  BY SeniorStepFollowed
<1>3. SeniorSpec => [][Followed]_AllVars
  BY <1>1, <1>2, LoansInvariant, PoolUnderSeniorInvariant, SeniorPoolTypeCorrect, PTL
  DEF SeniorSpec, AllVars
<1> QED BY <1>3 DEF WorthFollowsAssets, Followed, AllVars
=============================================================================
