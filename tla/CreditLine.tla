----------------------------- MODULE CreditLine -----------------------------
(***************************************************************************)
(* The loan of a Goldfinch pool: CreditLine.sol, with the clock and with   *)
(* the calls its owner, TranchedPool.sol, makes on it.  A transaction is   *)
(* one step; a transaction that reverts is a step that is not enabled.     *)
(***************************************************************************)
EXTENDS Accountant

CONSTANTS
    Terms,             \* the loan terms a line may be created or migrated with
    Amounts,           \* amounts that are drawn down or paid
    Limits,            \* amounts that a limit is set to
    StartTime,         \* block.timestamp when the line is created
    MaxTime,           \* bound: the clock stops here
    MaxUsdc,           \* bound: most USDC the line may hold
    MaxPrincipalOwed   \* bound: no assessment once this much is owed

ASSUME CreditLineAssumption ==
    /\ Terms \subseteq LoanTerms
    /\ Amounts \subseteq Nat
    /\ Limits \subseteq Nat
    /\ StartTime \in Nat \ {0}
    /\ MaxTime \in Nat
    /\ MaxUsdc \in Nat
    /\ MaxPrincipalOwed \in Nat
    \* timestamps count from 1970: no period or term is as long as that
    /\ \A loan \in Terms :
          loan.paymentPeriod <= StartTime /\ loan.term <= StartTime

VARIABLES
    now,                  \* block.timestamp
    terms,                \* the terms of the current line
    currentLimit,
    maxLimit,
    balance,
    interestOwed,
    principalOwed,
    termEndTime,          \* 0 until the first drawdown
    nextDueTime,          \* 0 when nothing is borrowed
    interestAccruedAsOf,
    lastFullPaymentTime,
    totalInterestAccrued,
    usdc                  \* USDC held by the line, not yet applied

limits     == <<currentLimit, maxLimit>>
accounting == <<balance, interestOwed, principalOwed, termEndTime, nextDueTime,
                interestAccruedAsOf, lastFullPaymentTime, totalInterestAccrued>>
clVars     == <<now, terms, limits, accounting, usdc>>

Init ==
    /\ now = StartTime
    /\ terms \in Terms
    /\ currentLimit = 0
    /\ maxLimit \in Limits
    /\ balance = 0
    /\ interestOwed = 0
    /\ principalOwed = 0
    /\ termEndTime = 0
    /\ nextDueTime = 0
    /\ interestAccruedAsOf = now
    /\ lastFullPaymentTime = 0
    /\ totalInterestAccrued = 0
    /\ usdc = 0

-----------------------------------------------------------------------------
(* What the contract computes from its state.                              *)

isLate(bal, lastFull) ==
    bal > 0 /\ now - lastFull > terms.paymentPeriod

withinPrincipalGracePeriod ==
    termEndTime = 0 \/ now < termEndTime - terms.term + terms.principalGracePeriod

\* The end of the period that contains `now`, counted from the due time `due`.
NextPeriodEnd(due) ==
    due + ((now - due) \div terms.paymentPeriod + 1) * terms.paymentPeriod

\* The contract reverts when there is neither a balance nor a due time.
HasDueTime(bal, due) == bal > 0 \/ due # 0

\* Variant: a line that is paid off keeps its due time.
KeptDueTime(bal, due, termEnd) ==
    CASE due = 0   -> now + terms.paymentPeriod
      [] due > now -> due
      [] OTHER     -> Smaller(NextPeriodEnd(due), termEnd)

calculateNextDueTime(bal, due, termEnd) ==
    CASE bal = 0              -> 0
      [] bal > 0 /\ due = 0   -> now + terms.paymentPeriod
      [] bal > 0 /\ due > now -> due
      [] OTHER                -> Smaller(NextPeriodEnd(due), termEnd)

\* Variant: the borrower is current as of the coming due time.
ComingDueTime(due) == due
\* Variant: it is current only as of the due time before.
EarlierDueTime(due) ==
    IF now < due THEN due - 2 * terms.paymentPeriod ELSE due - terms.paymentPeriod

\* When interest is paid in full the borrower is current as of this time.
MostRecentDueTime(due) ==
    IF now < due THEN due - terms.paymentPeriod ELSE due

-----------------------------------------------------------------------------
(* updateCreditLineAccounting: the common tail of drawdown and assess.     *)

updateCreditLineAccounting(bal, owedInterest, owedPrincipal, due, termEnd, lastFull) ==
    /\ HasDueTime(bal, due)
    /\ balance' = bal
    /\ interestOwed' = owedInterest
    /\ principalOwed' = owedPrincipal
    /\ lastFullPaymentTime' =
          IF owedInterest = 0 /\ due # 0 THEN MostRecentDueTime(due) ELSE lastFull
    /\ nextDueTime' = calculateNextDueTime(bal, due, termEnd)

\* Variants: the time of the accrual is never kept; it is kept whatever was accrued.
NeverAccruedAsOf(accruedAt, interest, timestamp) == accruedAt
AlwaysAccruedAsOf(accruedAt, interest, timestamp) == timestamp

\* While no interest accrues, not even a unit, the old time is kept, so that the
\* next accrual counts the whole time since.
AccruedAsOf(accruedAt, interest, timestamp) ==
    IF interest > 0 THEN timestamp ELSE accruedAt

\* drawdown: the first one, and any that follows a full repayment, opens the
\* line's accounting at `now`; the term is set once.  The pool that draws may lock
\* itself in the same transaction, and then sets the `limit` first.
Drawdown(amount, limit) ==
    LET opening   == balance = 0
        accruedAt == IF opening THEN now ELSE interestAccruedAsOf
        lastFull  == IF opening THEN now ELSE lastFullPaymentTime
        termEnd   == IF opening /\ termEndTime = 0
                     THEN now + terms.term ELSE termEndTime
        interest  == calculateInterestAccrued(terms, balance, accruedAt, lastFull, now)
        principal == calculatePrincipalAccrued(balance, accruedAt, termEnd, now)
    IN  /\ termEndTime = 0 \/ now < termEndTime
        /\ limit = currentLimit \/ limit <= maxLimit
        /\ amount + balance <= limit
        /\ amount > 0
        /\ CanSub(now, lastFull)
        /\ currentLimit' = limit
        /\ termEndTime' = termEnd
        /\ interestAccruedAsOf' = AccruedAsOf(accruedAt, interest, now)
        /\ totalInterestAccrued' =
              (IF opening THEN 0 ELSE totalInterestAccrued) + interest
        /\ updateCreditLineAccounting(balance + amount, interestOwed + interest,
              principalOwed + principal, nextDueTime, termEnd, lastFull)
        /\ CanSub(now, lastFullPaymentTime')
        /\ ~isLate(balance', lastFullPaymentTime')
        /\ UNCHANGED <<now, terms, maxLimit, usdc>>

-----------------------------------------------------------------------------
(* assess: apply the USDC the line holds.                                  *)

\* Assessed before the period has ended, by a borrower who is not late:
\* nothing happens and nothing is returned.
TooEarly == now < nextDueTime /\ ~isLate(balance, lastFullPaymentTime)

UpdatedDueTime == calculateNextDueTime(balance, nextDueTime, termEndTime)

\* Variant: always the period before, though the due time has come.
PreviousPeriodEnd == UpdatedDueTime - terms.paymentPeriod

\* The instant that accruals are calculated for.
TimeToAssess ==
    IF UpdatedDueTime > now THEN UpdatedDueTime - terms.paymentPeriod
    ELSE UpdatedDueTime

NewInterest ==
    calculateInterestAccrued(terms, balance, interestAccruedAsOf,
                             lastFullPaymentTime, TimeToAssess)
NewPrincipal ==
    calculatePrincipalAccrued(balance, interestAccruedAsOf, termEndTime, TimeToAssess)

Allocation(payment) ==
    allocatePayment(payment, balance, interestOwed + NewInterest,
                    principalOwed + NewPrincipal)

\* The subtractions that assess and handlePayment make do not underflow.
CanAssess(payment) ==
    /\ CanSub(now, lastFullPaymentTime)
    /\ ~TooEarly =>
          /\ CanSub(TimeToAssess, lastFullPaymentTime)
          /\ CanSub(balance, Allocation(payment).principalPayment)

\* What assess returns: the payment that is applied to interest, to principal,
\* and the rest.
InterestPayment(payment) ==
    IF TooEarly THEN 0 ELSE Allocation(payment).interestPayment
PrincipalPayment(payment) ==
    IF TooEarly THEN 0
    ELSE Allocation(payment).principalPayment
           + Allocation(payment).additionalBalancePayment
PaymentRemaining(payment) ==
    IF TooEarly THEN 0
    ELSE payment - InterestPayment(payment) - PrincipalPayment(payment)

handlePayment(payment) ==
    /\ interestAccruedAsOf' = AccruedAsOf(interestAccruedAsOf, NewInterest, TimeToAssess)
    /\ totalInterestAccrued' = totalInterestAccrued + NewInterest
    /\ updateCreditLineAccounting(
          balance - PrincipalPayment(payment),
          interestOwed + NewInterest - InterestPayment(payment),
          principalOwed + NewPrincipal - Allocation(payment).principalPayment,
          UpdatedDueTime, termEndTime, lastFullPaymentTime)
    /\ UNCHANGED termEndTime

assess(payment) ==
    /\ balance > 0
    /\ CanAssess(payment)
    /\ IF TooEarly THEN UNCHANGED accounting ELSE handlePayment(payment)

\* The pool takes everything the line holds as soon as some of it was applied.
Collected(payment) ==
    IF InterestPayment(payment) > 0 \/ PrincipalPayment(payment) > 0
    THEN payment ELSE 0

-----------------------------------------------------------------------------
(* The owner's calls.                                                      *)

\* TranchedPool.pay(amount): transfer to the line, then assess.
Pay(amount) ==
    /\ amount > 0
    /\ usdc + amount <= MaxUsdc
    /\ principalOwed <= MaxPrincipalOwed
    /\ assess(usdc + amount)
    /\ usdc' = usdc + amount - Collected(usdc + amount)
    /\ UNCHANGED <<now, terms, limits>>

\* TranchedPool.assess()
Assess ==
    /\ principalOwed <= MaxPrincipalOwed
    /\ assess(usdc)
    /\ usdc' = usdc - Collected(usdc)
    /\ UNCHANGED <<now, terms, limits>>

\* Anyone may send USDC to the line's address: the token asks nobody.
Receive(amount) ==
    /\ amount > 0
    /\ usdc + amount <= MaxUsdc
    /\ usdc' = usdc + amount
    /\ UNCHANGED <<now, terms, limits, accounting>>

SetLimit(newAmount) ==
    /\ newAmount <= maxLimit
    /\ currentLimit' = newAmount
    /\ UNCHANGED <<now, terms, maxLimit, accounting, usdc>>

SetMaxLimit(newAmount) ==
    /\ maxLimit' = newAmount
    /\ UNCHANGED <<now, terms, currentLimit, accounting, usdc>>

\* TranchedPool.migrateCreditLine: a new line with new terms takes over the
\* accounting variables and the USDC of the old one, which is closed.  The new
\* line's setLimit reverts when the limit is above its maximum.
Migrate(newTerms, newMaxLimit) ==
    /\ currentLimit <= newMaxLimit
    /\ terms' = newTerms
    /\ maxLimit' = newMaxLimit
    /\ UNCHANGED <<now, currentLimit, accounting, usdc>>

\* TranchedPool.emergencyShutdown sweeps the line's USDC to the reserve.
Sweep ==
    /\ usdc > 0
    /\ usdc' = 0
    /\ UNCHANGED <<now, terms, limits, accounting>>

Tick ==
    /\ now < MaxTime
    /\ now' = now + 1
    /\ UNCHANGED <<terms, limits, accounting, usdc>>

Next ==
    \/ Tick
    \/ Assess
    \/ Sweep
    \/ \E amount \in Amounts :
          \/ \E limit \in Limits \cup {currentLimit} : Drawdown(amount, limit)
          \/ Pay(amount)
          \/ Receive(amount)
    \/ \E limit \in Limits :
          \/ SetLimit(limit)
          \/ SetMaxLimit(limit)
          \/ \E newTerms \in Terms : Migrate(newTerms, limit)

Spec == Init /\ [][Next]_clVars
=============================================================================
