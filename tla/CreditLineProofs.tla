-------------------------- MODULE CreditLineProofs --------------------------
(***************************************************************************)
(* What CreditLineProperties asks of the credit line, proved for all       *)
(* values of the constants.                                                *)
(***************************************************************************)
EXTENDS CreditLineProperties, TLAPS

-----------------------------------------------------------------------------
(* Arithmetic of the Accountant.                                           *)

\* Division of a natural number rounds down to a natural number.
LEMMA DivFacts ==
    ASSUME NEW a \in Nat, NEW b \in Nat \ {0}
    PROVE  /\ a \div b \in Nat
           /\ (a \div b) * b <= a
           /\ a < (a \div b + 1) * b
           /\ a = 0 => a \div b = 0
OBVIOUS

\* Simple interest is an amount, and nothing on no balance or over no time.
LEMMA SimpleInterestFacts ==
    ASSUME NEW b \in Nat, NEW apr \in Nat, NEW elapsed \in Nat
    PROVE  /\ SimpleInterest(b, apr, elapsed) \in Nat
           /\ b = 0 \/ elapsed = 0 => SimpleInterest(b, apr, elapsed) = 0
<1> DEFINE perYear == (b * apr) \div INTEREST_DECIMALS
<1>1. b * apr \in Nat /\ (b = 0 => b * apr = 0)
  OBVIOUS
<1>2. perYear \in Nat /\ (b = 0 => perYear = 0)
  BY <1>1, DivFacts, AccountantAssumption
<1> HIDE DEF perYear
<1>3. /\ perYear * elapsed \in Nat
      /\ perYear = 0 \/ elapsed = 0 => perYear * elapsed = 0
  BY <1>2
<1>4. /\ (perYear * elapsed) \div SECONDS_PER_YEAR \in Nat
      /\ perYear * elapsed = 0 => (perYear * elapsed) \div SECONDS_PER_YEAR = 0
  BY <1>3, DivFacts, AccountantAssumption
<1> QED
  BY <1>2, <1>3, <1>4 DEF SimpleInterest, perYear

\* Accrued interest is an amount; none accrues on a zero balance, nor up to a time
\* that has been accrued to.
LEMMA InterestFacts ==
    ASSUME NEW loan \in LoanTerms, NEW b \in Nat, NEW accruedAsOf \in Nat,
           NEW lastFull \in Nat, NEW t \in Nat
    PROVE  /\ calculateInterestAccrued(loan, b, accruedAsOf, lastFull, t) \in Nat
           /\ b = 0 \/ t <= accruedAsOf
                => calculateInterestAccrued(loan, b, accruedAsOf, lastFull, t) = 0
<1> DEFINE elapsed == t - Smaller(t, accruedAsOf)
<1>1. elapsed \in Nat /\ (t <= accruedAsOf => elapsed = 0)
  BY DEF Smaller
<1>2. loan.interestApr \in Nat /\ loan.lateFeeApr \in Nat
  BY DEF LoanTerms
<1> HIDE DEF elapsed
<1>3. /\ SimpleInterest(b, loan.interestApr, elapsed) \in Nat
      /\ SimpleInterest(b, loan.lateFeeApr, elapsed) \in Nat
      /\ b = 0 \/ elapsed = 0 =>
            /\ SimpleInterest(b, loan.interestApr, elapsed) = 0
            /\ SimpleInterest(b, loan.lateFeeApr, elapsed) = 0
  BY <1>1, <1>2, SimpleInterestFacts
<1> QED
  BY <1>1, <1>3 DEF calculateInterestAccrued, elapsed

LEMMA PrincipalFacts ==
    ASSUME NEW b \in Nat, NEW accruedAsOf \in Nat, NEW termEnd \in Nat, NEW t \in Nat
    PROVE  calculatePrincipalAccrued(b, accruedAsOf, termEnd, t) \in 0..b
BY DEF calculatePrincipalAccrued

\* A payment is spent on interest first, and never exceeded.
LEMMA AllocationFacts ==
    ASSUME NEW p \in Nat, NEW b \in Nat, NEW i \in Nat, NEW q \in Nat,
           allocatePayment(p, b, i, q).principalPayment <= b
    PROVE  LET pa == allocatePayment(p, b, i, q)
           IN  /\ pa.interestPayment \in 0..i
               /\ pa.principalPayment \in 0..q
               /\ pa.additionalBalancePayment \in Nat
               /\ pa.principalPayment + pa.additionalBalancePayment \in 0..b
               /\ pa.interestPayment + pa.principalPayment
                    + pa.additionalBalancePayment <= p
               /\ pa.principalPayment + pa.additionalBalancePayment > 0
                    => pa.interestPayment = i
BY DEF allocatePayment, Smaller

-----------------------------------------------------------------------------
(* The schedule.                                                           *)

\* Every period and term is positive and shorter than the time since 1970.
LEMMA TermsFacts ==
    ASSUME terms \in Terms
    PROVE  /\ terms \in LoanTerms
           /\ terms.paymentPeriod \in Nat \ {0}
           /\ terms.term \in Nat \ {0}
           /\ terms.paymentPeriod <= StartTime
BY CreditLineAssumption DEF LoanTerms

\* The end of the current period lies ahead, less than a period away.
LEMMA PeriodEndFacts ==
    ASSUME terms \in Terms, now \in Nat, NEW due \in Nat, due <= now
    PROVE  /\ NextPeriodEnd(due) \in Nat
           /\ NextPeriodEnd(due) > now
           /\ NextPeriodEnd(due) <= now + terms.paymentPeriod
<1> DEFINE P == terms.paymentPeriod
           k == (now - due) \div P
<1>1. P \in Nat \ {0}
  BY TermsFacts
<1>2. now - due \in Nat
  OBVIOUS
<1> HIDE DEF P
<1>3. k \in Nat /\ k * P <= now - due /\ now - due < (k + 1) * P
  BY <1>1, <1>2, DivFacts
<1> HIDE DEF k
<1>4. (k + 1) * P = k * P + P /\ k * P \in Nat
  BY <1>1, <1>3
<1> QED
  BY <1>1, <1>3, <1>4 DEF NextPeriodEnd, P, k

\* The due time calculated for a line with a balance is a real time, not before
\* the line was created; without a balance there is none.
LEMMA DueTimeFacts ==
    ASSUME terms \in Terms, now \in Nat, now >= StartTime,
           NEW b \in Nat, NEW due \in Nat, NEW termEnd \in Nat,
           b > 0 => termEnd >= StartTime,
           due = 0 \/ due >= StartTime
    PROVE  LET d == calculateNextDueTime(b, due, termEnd)
           IN  /\ d \in Nat
               /\ b = 0 => d = 0
               /\ b > 0 => d >= StartTime
               /\ b > 0 /\ due <= now => d <= now + terms.paymentPeriod
               /\ b > 0 /\ due > now => d = due
<1>1. StartTime \in Nat \ {0} /\ terms.paymentPeriod \in Nat
  BY CreditLineAssumption, TermsFacts
<1>2. CASE b = 0
  BY <1>1, <1>2 DEF calculateNextDueTime
<1>3. CASE b > 0 /\ due = 0
  BY <1>1, <1>3 DEF calculateNextDueTime
<1>4. CASE b > 0 /\ due > now
  BY <1>1, <1>4 DEF calculateNextDueTime
<1>5. CASE b > 0 /\ due # 0 /\ due <= now
  <2>1. /\ NextPeriodEnd(due) \in Nat
        /\ NextPeriodEnd(due) > now
        /\ NextPeriodEnd(due) <= now + terms.paymentPeriod
    BY <1>5, PeriodEndFacts
  <2>2. calculateNextDueTime(b, due, termEnd) = Smaller(NextPeriodEnd(due), termEnd)
    BY <1>5 DEF calculateNextDueTime
  <2> QED
    BY <1>1, <1>5, <2>1, <2>2 DEF Smaller
<1> QED
  BY <1>2, <1>3, <1>4, <1>5

\* The instant an assessment accrues to.
LEMMA TimeToAssessFacts ==
    ASSUME ScheduleInv, balance > 0
    PROVE  /\ UpdatedDueTime \in Nat
           /\ UpdatedDueTime >= StartTime
           /\ TimeToAssess \in Nat
<1>1. /\ terms \in Terms /\ now \in Nat /\ now >= StartTime
      /\ balance \in Nat /\ nextDueTime \in Nat /\ termEndTime \in Nat
      /\ balance > 0 => termEndTime >= StartTime
      /\ nextDueTime = 0 \/ nextDueTime >= StartTime
  BY DEF ScheduleInv, TypeOK, SinceStart, PaymentSchedule
<1>2. /\ calculateNextDueTime(balance, nextDueTime, termEndTime) \in Nat
      /\ calculateNextDueTime(balance, nextDueTime, termEndTime) >= StartTime
  BY <1>1, DueTimeFacts
<1>3. /\ UpdatedDueTime \in Nat
      /\ UpdatedDueTime >= StartTime
  BY <1>2 DEF UpdatedDueTime
<1> QED
  BY <1>1, <1>3, TermsFacts, CreditLineAssumption DEF TimeToAssess

\* What an assessment charges and how it spends the payment.
LEMMA AssessmentFacts ==
    ASSUME ScheduleInv, balance > 0, NEW payment \in Nat,
           CanAssess(payment), ~TooEarly
    PROVE  /\ NewInterest \in Nat
           /\ NewPrincipal \in 0..balance
           /\ InterestPayment(payment) \in 0..(interestOwed + NewInterest)
           /\ Allocation(payment).principalPayment \in 0..(principalOwed + NewPrincipal)
           /\ PrincipalPayment(payment) \in 0..balance
           /\ InterestPayment(payment) + PrincipalPayment(payment) <= payment
           /\ PrincipalPayment(payment) > 0
                => InterestPayment(payment) = interestOwed + NewInterest
<1>1. /\ balance \in Nat /\ interestOwed \in Nat /\ principalOwed \in Nat
      /\ interestAccruedAsOf \in Nat /\ lastFullPaymentTime \in Nat
      /\ termEndTime \in Nat /\ terms \in LoanTerms /\ TimeToAssess \in Nat
  BY TimeToAssessFacts, TermsFacts DEF ScheduleInv, TypeOK
<1>2. NewInterest \in Nat
  BY <1>1, InterestFacts DEF NewInterest
<1>3. NewPrincipal \in 0..balance
  BY <1>1, PrincipalFacts DEF NewPrincipal
<1>4. Allocation(payment).principalPayment <= balance
  BY DEF CanAssess, CanSub
<1> DEFINE i == interestOwed + NewInterest
           q == principalOwed + NewPrincipal
<1>5. i \in Nat /\ q \in Nat
  BY <1>1, <1>2, <1>3
<1>6. Allocation(payment) = allocatePayment(payment, balance, i, q)
  BY DEF Allocation
<1> HIDE DEF i, q
<1>7. /\ Allocation(payment).interestPayment \in 0..i
      /\ Allocation(payment).principalPayment \in 0..q
      /\ Allocation(payment).additionalBalancePayment \in Nat
      /\ Allocation(payment).principalPayment
           + Allocation(payment).additionalBalancePayment \in 0..balance
      /\ Allocation(payment).interestPayment + Allocation(payment).principalPayment
           + Allocation(payment).additionalBalancePayment <= payment
      /\ Allocation(payment).principalPayment
           + Allocation(payment).additionalBalancePayment > 0
             => Allocation(payment).interestPayment = i
  <2> DEFINE pa == allocatePayment(payment, balance, i, q)
  <2>1. pa.principalPayment <= balance
    BY <1>4, <1>6
  <2>2. /\ pa.interestPayment \in 0..i
        /\ pa.principalPayment \in 0..q
        /\ pa.additionalBalancePayment \in Nat
        /\ pa.principalPayment + pa.additionalBalancePayment \in 0..balance
        /\ pa.interestPayment + pa.principalPayment
             + pa.additionalBalancePayment <= payment
        /\ pa.principalPayment + pa.additionalBalancePayment > 0
             => pa.interestPayment = i
    BY <1>1, <1>5, <2>1, AllocationFacts
  <2> QED
    BY <1>6, <2>2
<1>8. /\ InterestPayment(payment) = Allocation(payment).interestPayment
      /\ PrincipalPayment(payment) = Allocation(payment).principalPayment
                                       + Allocation(payment).additionalBalancePayment
  BY DEF InterestPayment, PrincipalPayment
<1>9. /\ InterestPayment(payment) \in 0..i
      /\ PrincipalPayment(payment) \in 0..balance
      /\ InterestPayment(payment) + PrincipalPayment(payment) <= payment
      /\ PrincipalPayment(payment) > 0 => InterestPayment(payment) = i
  BY <1>1, <1>5, <1>7, <1>8
<1> QED
  BY <1>2, <1>3, <1>7, <1>9 DEF i, q
-----------------------------------------------------------------------------
(* The steps.                                                              *)

\* The part of ScheduleInv that the accounting variables carry.
AccountingInv ==
    /\ balance \in Nat
    /\ interestOwed \in Nat
    /\ principalOwed \in Nat
    /\ termEndTime \in Nat
    /\ nextDueTime \in Nat
    /\ interestAccruedAsOf \in Nat
    /\ lastFullPaymentTime \in Nat
    /\ totalInterestAccrued \in Nat
    /\ nextDueTime = 0 \/ nextDueTime >= StartTime
    /\ termEndTime = 0 \/ termEndTime >= StartTime
    /\ PaymentSchedule

\* The common tail of drawdown and assess leaves a consistent schedule.
LEMMA UpdateAccountingInv ==
    ASSUME ScheduleInv,
           NEW b \in Nat, NEW i \in Nat, NEW q \in Nat, NEW due \in Nat,
           NEW termEnd \in Nat, NEW lastFull \in Nat,
           updateCreditLineAccounting(b, i, q, due, termEnd, lastFull),
           b = 0 => i = 0,
           b > 0 => termEnd >= StartTime,
           due = 0 \/ due >= StartTime
    PROVE  /\ balance' = b /\ interestOwed' = i /\ principalOwed' = q
           /\ lastFullPaymentTime' \in Nat
           /\ nextDueTime' \in Nat
           /\ nextDueTime' = 0 \/ nextDueTime' >= StartTime
           /\ balance' > 0 <=> nextDueTime' > 0
<1>1. /\ terms \in Terms /\ now \in Nat /\ now >= StartTime
      /\ StartTime \in Nat \ {0}
  BY CreditLineAssumption DEF ScheduleInv, TypeOK, SinceStart
<1>2. /\ calculateNextDueTime(b, due, termEnd) \in Nat
      /\ b = 0 => calculateNextDueTime(b, due, termEnd) = 0
      /\ b > 0 => calculateNextDueTime(b, due, termEnd) >= StartTime
  BY <1>1, DueTimeFacts
<1>3. due # 0 => MostRecentDueTime(due) \in Nat
  BY <1>1, TermsFacts DEF MostRecentDueTime
<1> QED
  BY <1>1, <1>2, <1>3 DEF updateCreditLineAccounting

\* An assessment of any payment keeps the schedule, and takes no more from the line
\* than it holds.
LEMMA AssessInv ==
    ASSUME ScheduleInv, NEW payment \in Nat, assess(payment)
    PROVE  /\ AccountingInv'
           /\ Collected(payment) \in 0..payment
           /\ termEndTime' = termEndTime
           /\ balance' \in 0..balance
           /\ balance' < balance => interestOwed' = 0
<1>1. CASE TooEarly
  BY <1>1 DEF assess, accounting, AccountingInv, ScheduleInv, TypeOK, SinceStart,
              PaymentSchedule, Collected, InterestPayment, PrincipalPayment
<1>2. CASE ~TooEarly
  <2>1. /\ balance > 0 /\ CanAssess(payment) /\ handlePayment(payment)
        /\ balance \in Nat /\ interestOwed \in Nat /\ principalOwed \in Nat
        /\ termEndTime \in Nat /\ termEndTime >= StartTime
        /\ interestAccruedAsOf \in Nat /\ lastFullPaymentTime \in Nat
        /\ totalInterestAccrued \in Nat
        /\ UpdatedDueTime \in Nat /\ UpdatedDueTime >= StartTime
        /\ TimeToAssess \in Nat
    BY <1>2, TimeToAssessFacts
    DEF assess, ScheduleInv, TypeOK, SinceStart, PaymentSchedule
  <2> DEFINE b == balance - PrincipalPayment(payment)
             i == interestOwed + NewInterest - InterestPayment(payment)
             q == principalOwed + NewPrincipal - Allocation(payment).principalPayment
  <2>2. /\ NewInterest \in Nat
        /\ b \in 0..balance /\ b \in Nat /\ i \in Nat /\ q \in Nat
        /\ b < balance => i = 0
        /\ b = 0 => i = 0
    BY <1>2, <2>1, AssessmentFacts
  <2>3. /\ interestAccruedAsOf' \in Nat
        /\ totalInterestAccrued' \in Nat
        /\ termEndTime' = termEndTime
        /\ updateCreditLineAccounting(b, i, q, UpdatedDueTime, termEndTime,
                                      lastFullPaymentTime)
    BY <2>1, <2>2 DEF handlePayment, AccruedAsOf
  <2> HIDE DEF b, i, q
  <2>4. /\ balance' = b /\ interestOwed' = i /\ principalOwed' = q
        /\ lastFullPaymentTime' \in Nat
        /\ nextDueTime' \in Nat
        /\ nextDueTime' = 0 \/ nextDueTime' >= StartTime
        /\ balance' > 0 <=> nextDueTime' > 0
    BY <2>1, <2>2, <2>3, UpdateAccountingInv
  <2>5. termEndTime > 0
    BY <2>1, CreditLineAssumption
  <2>6. PaymentSchedule'
    BY <2>2, <2>3, <2>4, <2>5 DEF PaymentSchedule
  <2> QED
    BY <2>1, <2>2, <2>3, <2>4, <2>6 DEF AccountingInv, Collected
<1> QED
  BY <1>1, <1>2

\* So does a drawdown.
LEMMA DrawdownInv ==
    ASSUME ScheduleInv, NEW amount \in Nat, NEW limit, Drawdown(amount, limit)
    PROVE  AccountingInv'
<1> DEFINE opening   == balance = 0
           accruedAt == IF opening THEN now ELSE interestAccruedAsOf
           lastFull  == IF opening THEN now ELSE lastFullPaymentTime
           termEnd   == IF opening /\ termEndTime = 0
                        THEN now + terms.term ELSE termEndTime
           interest  == calculateInterestAccrued(terms, balance, accruedAt, lastFull, now)
           principal == calculatePrincipalAccrued(balance, accruedAt, termEnd, now)
<1>1. /\ amount > 0
      /\ termEndTime' = termEnd
      /\ interestAccruedAsOf' = IF interest > 0 THEN now ELSE accruedAt
      /\ totalInterestAccrued' = (IF opening THEN 0 ELSE totalInterestAccrued) + interest
      /\ updateCreditLineAccounting(balance + amount, interestOwed + interest,
            principalOwed + principal, nextDueTime, termEnd, lastFull)
  BY Zenon DEF Drawdown, AccruedAsOf
<1>2. /\ balance \in Nat /\ interestOwed \in Nat /\ principalOwed \in Nat
      /\ nextDueTime \in Nat /\ totalInterestAccrued \in Nat /\ now \in Nat
      /\ nextDueTime = 0 \/ nextDueTime >= StartTime
      /\ terms \in LoanTerms /\ StartTime \in Nat \ {0}
      /\ accruedAt \in Nat /\ lastFull \in Nat
      /\ termEnd \in Nat /\ termEnd >= StartTime
  BY TermsFacts, CreditLineAssumption
  DEF ScheduleInv, TypeOK, SinceStart, PaymentSchedule
<1> HIDE DEF accruedAt, lastFull, termEnd
<1>3. interest \in Nat
  BY <1>2, InterestFacts
<1>4. principal \in 0..balance
  BY <1>2, PrincipalFacts
<1> HIDE DEF interest, principal
<1>5. /\ balance' = balance + amount
      /\ interestOwed' = interestOwed + interest
      /\ principalOwed' = principalOwed + principal
      /\ lastFullPaymentTime' \in Nat
      /\ nextDueTime' \in Nat
      /\ nextDueTime' = 0 \/ nextDueTime' >= StartTime
      /\ balance' > 0 <=> nextDueTime' > 0
  <2> DEFINE b == balance + amount
             i == interestOwed + interest
             q == principalOwed + principal
  <2>1. b \in Nat /\ b > 0 /\ i \in Nat /\ q \in Nat
    BY <1>1, <1>2, <1>3, <1>4
  <2>2. updateCreditLineAccounting(b, i, q, nextDueTime, termEnd, lastFull)
    BY <1>1
  <2> HIDE DEF b, i, q
  <2>3. /\ balance' = b /\ interestOwed' = i /\ principalOwed' = q
        /\ lastFullPaymentTime' \in Nat
        /\ nextDueTime' \in Nat
        /\ nextDueTime' = 0 \/ nextDueTime' >= StartTime
        /\ balance' > 0 <=> nextDueTime' > 0
    BY <1>2, <2>1, <2>2, UpdateAccountingInv
  <2> QED
    BY <2>3 DEF b, i, q
<1> QED
  BY <1>1, <1>2, <1>3, <1>4, <1>5 DEF AccountingInv, PaymentSchedule
LEMMA ScheduleInit == Init => ScheduleInv
<1> SUFFICES ASSUME Init PROVE ScheduleInv
  OBVIOUS
<1>1. /\ StartTime \in Nat \ {0} /\ maxLimit \in Nat
  BY CreditLineAssumption DEF Init
<1> QED
  BY <1>1 DEF Init, ScheduleInv, TypeOK, SinceStart, PaymentSchedule

LEMMA ScheduleStep == ScheduleInv /\ [Next]_clVars => ScheduleInv'
<1> SUFFICES ASSUME ScheduleInv, [Next]_clVars PROVE ScheduleInv'
  OBVIOUS
<1>1. /\ now \in Nat \ {0} /\ now >= StartTime /\ terms \in Terms
      /\ currentLimit \in Nat /\ maxLimit \in Nat /\ usdc \in Nat
      /\ AccountingInv
      /\ Amounts \subseteq Nat /\ Limits \subseteq Nat
      /\ StartTime \in Nat
  BY CreditLineAssumption
  DEF ScheduleInv, TypeOK, SinceStart, AccountingInv
<1>2. ASSUME UNCHANGED accounting PROVE AccountingInv'
  BY <1>1, <1>2 DEF accounting, AccountingInv, PaymentSchedule
<1>3. SUFFICES /\ now' \in Nat \ {0} /\ now' >= StartTime /\ terms' \in Terms
               /\ currentLimit' \in Nat /\ maxLimit' \in Nat /\ usdc' \in Nat
               /\ AccountingInv'
  BY <1>3 DEF ScheduleInv, TypeOK, SinceStart, AccountingInv
<1>4. CASE Tick
  BY <1>1, <1>2, <1>4 DEF Tick, limits
<1>5. CASE Assess
  BY <1>1, <1>5, AssessInv DEF Assess, limits
<1>6. CASE Sweep
  BY <1>1, <1>2, <1>6 DEF Sweep, limits
<1>7. ASSUME NEW amount \in Amounts, NEW limit \in Limits \cup {currentLimit},
             Drawdown(amount, limit)
      PROVE  <1>3!1
  <2>1. AccountingInv'
    BY <1>1, <1>7, DrawdownInv
  <2> QED
    BY <1>1, <1>7, <2>1 DEF Drawdown, limits
<1>8. ASSUME NEW amount \in Amounts, Pay(amount)
      PROVE  <1>3!1
  <2>1. usdc + amount \in Nat
    BY <1>1
  <2>2. AccountingInv' /\ Collected(usdc + amount) \in 0..(usdc + amount)
    BY <1>8, <2>1, AssessInv DEF Pay
  <2> QED
    BY <1>1, <1>8, <2>1, <2>2 DEF Pay, limits
<1>9. ASSUME NEW amount \in Amounts, Receive(amount)
      PROVE  <1>3!1
  BY <1>1, <1>2, <1>9 DEF Receive, limits
<1>10. ASSUME NEW limit \in Limits, SetLimit(limit) \/ SetMaxLimit(limit)
       PROVE  <1>3!1
  BY <1>1, <1>2, <1>10 DEF SetLimit, SetMaxLimit
<1>11. ASSUME NEW newTerms \in Terms, NEW limit \in Limits,
              Migrate(newTerms, limit)
       PROVE  <1>3!1
  BY <1>1, <1>2, <1>11 DEF Migrate
<1>12. CASE UNCHANGED clVars
  BY <1>1, <1>2, <1>12 DEF clVars, limits
<1> QED
  BY <1>4, <1>5, <1>6, <1>7, <1>8, <1>9, <1>10, <1>11, <1>12 DEF Next

\* The inductive invariant of the schedule.
THEOREM ScheduleInvariant == Spec => []ScheduleInv
BY ScheduleInit, ScheduleStep, PTL DEF Spec

\* Every variable keeps its type: no amount or time of the credit line goes below
\* zero, whatever is drawn, paid, received or migrated, at any time.
THEOREM TypeCorrect == Spec => []TypeOK
<1>1. ScheduleInv => TypeOK
  BY DEF ScheduleInv
<1> QED
  BY <1>1, ScheduleInvariant, PTL

\* A next due time exactly while something is borrowed, no interest owed on a line
\* that is paid off: for every choice of terms, amounts and bounds.
THEOREM PaymentScheduleCorrect == Spec => []PaymentSchedule
<1>1. ScheduleInv => PaymentSchedule
  BY DEF ScheduleInv
<1> QED
  BY <1>1, ScheduleInvariant, PTL
-----------------------------------------------------------------------------
(* The credit line implements the abstract loan.                           *)

LEMMA LoanStep == ScheduleInv /\ [Next]_clVars => [L!Next]_L!loanVars
<1> SUFFICES ASSUME ScheduleInv, [Next]_clVars PROVE [L!Next]_L!loanVars
  OBVIOUS
<1>1. /\ now \in Nat /\ balance \in Nat /\ interestOwed \in Nat /\ usdc \in Nat
      /\ Amounts \subseteq Nat
  BY CreditLineAssumption DEF ScheduleInv, TypeOK
<1>2. ASSUME UNCHANGED <<now, accounting>> PROVE UNCHANGED L!loanVars
  BY <1>2 DEF accounting, L!loanVars
<1>3. ASSUME NEW payment \in Nat, assess(payment), now' = now PROVE L!Settle
  <2>1. balance > 0
    BY <1>3 DEF assess
  <2>2. /\ AccountingInv' /\ termEndTime' = termEndTime /\ balance' \in 0..balance
        /\ balance' < balance => interestOwed' = 0
    BY <1>3, AssessInv
  <2> QED
    BY <1>3, <2>1, <2>2 DEF L!Settle, AccountingInv
<1>4. CASE Tick
  BY <1>1, <1>4 DEF Tick, accounting, L!Next, L!Tick
<1>5. CASE Assess
  BY <1>1, <1>3, <1>5 DEF Assess, L!Next
<1>6. CASE Sweep
  BY <1>2, <1>6 DEF Sweep
<1>7. ASSUME NEW amount \in Amounts, NEW limit \in Limits \cup {currentLimit},
             Drawdown(amount, limit)
      PROVE  L!Draw
  <2> DEFINE opening   == balance = 0
             accruedAt == IF opening THEN now ELSE interestAccruedAsOf
             lastFull  == IF opening THEN now ELSE lastFullPaymentTime
             termEnd   == IF opening /\ termEndTime = 0
                          THEN now + terms.term ELSE termEndTime
             interest  == calculateInterestAccrued(terms, balance, accruedAt, lastFull, now)
             principal == calculatePrincipalAccrued(balance, accruedAt, termEnd, now)
  <2>1. /\ termEndTime = 0 \/ now < termEndTime
        /\ amount > 0
        /\ now' = now
        /\ termEndTime' = termEnd
        /\ updateCreditLineAccounting(balance + amount, interestOwed + interest,
              principalOwed + principal, nextDueTime, termEnd, lastFull)
    BY <1>7, Zenon DEF Drawdown
  <2>2. /\ balance' = balance + amount
        /\ interestOwed' = interestOwed + interest
    BY <2>1 DEF updateCreditLineAccounting
  <2>3. /\ terms \in LoanTerms /\ terms.term \in Nat \ {0}
        /\ accruedAt \in Nat /\ lastFull \in Nat
        /\ termEndTime = 0 => opening
        /\ balance = 0 => interestOwed = 0
    BY <1>1, TermsFacts DEF ScheduleInv, TypeOK, PaymentSchedule
  <2>4. interest \in Nat /\ (balance = 0 => interest = 0)
    <3>1. /\ terms \in LoanTerms /\ accruedAt \in Nat /\ lastFull \in Nat
          /\ now \in Nat /\ balance \in Nat
      BY <1>1, <2>3
    <3> HIDE DEF accruedAt, lastFull
    <3>2. /\ calculateInterestAccrued(terms, balance, accruedAt, lastFull, now) \in Nat
          /\ balance = 0 \/ now <= accruedAt =>
               calculateInterestAccrued(terms, balance, accruedAt, lastFull, now) = 0
      BY <3>1, InterestFacts
    <3> QED
      BY <3>2
  <2>5. IF termEndTime = 0 THEN termEndTime' > now ELSE termEndTime' = termEndTime
    BY <1>1, <2>1, <2>3
  <2> HIDE DEF interest
  <2> QED
    BY <1>1, <2>1, <2>2, <2>3, <2>4, <2>5 DEF L!Draw
<1>8. ASSUME NEW amount \in Amounts, Pay(amount) PROVE L!Settle
  BY <1>1, <1>3, <1>8 DEF Pay
<1>9. ASSUME NEW amount \in Amounts \cup Limits,
             Receive(amount) \/ SetLimit(amount) \/ SetMaxLimit(amount)
      PROVE  UNCHANGED L!loanVars
  BY <1>2, <1>9 DEF Receive, SetLimit, SetMaxLimit
<1>10. ASSUME NEW newTerms \in Terms, NEW limit \in Limits,
              Migrate(newTerms, limit)
       PROVE  UNCHANGED L!loanVars
  BY <1>2, <1>10 DEF Migrate
<1>11. CASE UNCHANGED clVars
  BY <1>2, <1>11 DEF clVars
<1> QED
  BY <1>4, <1>5, <1>6, <1>7, <1>8, <1>9, <1>10, <1>11 DEF Next, L!Next

\* Each transaction of the credit line is a step of the abstract loan or changes
\* nothing the loan can see, for every value of the constants.
THEOREM CreditLineImplementsLoan == Spec => ImplementsLoan
<1>1. Init => L!Init
  BY CreditLineAssumption DEF Init, L!Init
<1>2. ScheduleInv /\ [Next]_clVars => [L!Next]_L!loanVars
  BY LoanStep
<1> QED
  BY <1>1, <1>2, ScheduleInvariant, PTL DEF Spec, ImplementsLoan, L!Spec
-----------------------------------------------------------------------------
(* Times.                                                                  *)

\* The common tail of drawdown and assess sets no due time more than a period away and
\* no last full payment in the future.
LEMMA UpdateTimes ==
    ASSUME ScheduleInv,
           NEW b \in Nat, NEW i \in Nat, NEW q \in Nat, NEW due \in Nat,
           NEW termEnd \in Nat, NEW lastFull \in Nat,
           updateCreditLineAccounting(b, i, q, due, termEnd, lastFull),
           b > 0 => termEnd >= StartTime,
           due = 0 \/ due >= StartTime,
           due <= now + terms.paymentPeriod,
           lastFull <= now
    PROVE  /\ nextDueTime' <= now + terms.paymentPeriod
           /\ lastFullPaymentTime' <= now
<1>1. /\ terms \in Terms /\ now \in Nat /\ now >= StartTime
      /\ StartTime \in Nat \ {0}
  BY CreditLineAssumption DEF ScheduleInv, TypeOK, SinceStart
<1>2. /\ b = 0 => calculateNextDueTime(b, due, termEnd) = 0
      /\ b > 0 /\ due <= now =>
            calculateNextDueTime(b, due, termEnd) <= now + terms.paymentPeriod
      /\ b > 0 /\ due > now => calculateNextDueTime(b, due, termEnd) = due
  BY <1>1, DueTimeFacts
<1>3. terms.paymentPeriod \in Nat
  BY <1>1, TermsFacts
<1>4. MostRecentDueTime(due) <= now
  BY <1>1, <1>3 DEF MostRecentDueTime
<1>5. nextDueTime' = calculateNextDueTime(b, due, termEnd)
  BY DEF updateCreditLineAccounting
<1>6. lastFullPaymentTime' <= now
  BY <1>4 DEF updateCreditLineAccounting
<1>7. nextDueTime' <= now + terms.paymentPeriod
  BY <1>1, <1>2, <1>3, <1>5
<1> QED
  BY <1>6, <1>7

\* What an assessment that is not too early does to the times.
LEMMA AssessTimes ==
    ASSUME TimesInv, NEW payment \in Nat, assess(payment), ~TooEarly
    PROVE  /\ TimeToAssess \in Nat /\ TimeToAssess <= now
           /\ NewInterest \in Nat
           /\ TimeToAssess <= interestAccruedAsOf => NewInterest = 0
           /\ interestAccruedAsOf' =
                 IF NewInterest > 0 THEN TimeToAssess ELSE interestAccruedAsOf
           /\ nextDueTime' <= now + terms.paymentPeriod
           /\ lastFullPaymentTime' <= now
<1>1. /\ balance > 0 /\ CanAssess(payment) /\ handlePayment(payment)
  BY DEF assess
<1>2. /\ ScheduleInv
      /\ terms \in Terms /\ terms \in LoanTerms /\ terms.paymentPeriod \in Nat
      /\ now \in Nat /\ now >= StartTime
      /\ balance \in Nat /\ nextDueTime \in Nat /\ nextDueTime >= StartTime
      /\ nextDueTime <= now + terms.paymentPeriod
      /\ termEndTime \in Nat /\ termEndTime >= StartTime
      /\ interestOwed \in Nat /\ principalOwed \in Nat
      /\ interestAccruedAsOf \in Nat /\ lastFullPaymentTime \in Nat
      /\ lastFullPaymentTime <= now
      /\ UpdatedDueTime \in Nat /\ UpdatedDueTime >= StartTime
      /\ TimeToAssess \in Nat
  BY <1>1, TimeToAssessFacts, TermsFacts
  DEF TimesInv, ScheduleInv, TypeOK, SinceStart, PaymentSchedule, NothingAheadOfTime
<1>3. UpdatedDueTime <= now + terms.paymentPeriod
  <2>1. /\ nextDueTime <= now =>
             calculateNextDueTime(balance, nextDueTime, termEndTime)
                <= now + terms.paymentPeriod
        /\ nextDueTime > now =>
             calculateNextDueTime(balance, nextDueTime, termEndTime) = nextDueTime
    BY <1>1, <1>2, DueTimeFacts
  <2> QED
    BY <1>2, <2>1 DEF UpdatedDueTime
<1>4. TimeToAssess <= now
  BY <1>2, <1>3 DEF TimeToAssess
<1>5. /\ NewInterest \in Nat
      /\ TimeToAssess <= interestAccruedAsOf => NewInterest = 0
  BY <1>2, InterestFacts DEF NewInterest
<1> DEFINE b == balance - PrincipalPayment(payment)
           i == interestOwed + NewInterest - InterestPayment(payment)
           q == principalOwed + NewPrincipal - Allocation(payment).principalPayment
<1>6. /\ b \in Nat /\ i \in Nat /\ q \in Nat
  BY <1>1, <1>2, AssessmentFacts
<1>7. updateCreditLineAccounting(b, i, q, UpdatedDueTime, termEndTime,
                                 lastFullPaymentTime)
  BY <1>1 DEF handlePayment
<1> HIDE DEF b, i, q
<1>8. /\ nextDueTime' <= now + terms.paymentPeriod
      /\ lastFullPaymentTime' <= now
  BY <1>2, <1>3, <1>6, <1>7, UpdateTimes
<1>9. interestAccruedAsOf' =
         IF NewInterest > 0 THEN TimeToAssess ELSE interestAccruedAsOf
  BY <1>1 DEF handlePayment, AccruedAsOf
<1> QED
  BY <1>2, <1>4, <1>5, <1>8, <1>9

\* What a drawdown does to the times.
LEMMA DrawdownTimes ==
    ASSUME TimesInv, NEW amount \in Nat, NEW limit, Drawdown(amount, limit)
    PROVE  /\ interestAccruedAsOf' \in {now, interestAccruedAsOf}
           /\ nextDueTime' <= now + terms.paymentPeriod
           /\ lastFullPaymentTime' <= now
<1> DEFINE opening   == balance = 0
           accruedAt == IF opening THEN now ELSE interestAccruedAsOf
           lastFull  == IF opening THEN now ELSE lastFullPaymentTime
           termEnd   == IF opening /\ termEndTime = 0
                        THEN now + terms.term ELSE termEndTime
           interest  == calculateInterestAccrued(terms, balance, accruedAt, lastFull, now)
           principal == calculatePrincipalAccrued(balance, accruedAt, termEnd, now)
<1>1. /\ interestAccruedAsOf' = IF interest > 0 THEN now ELSE accruedAt
      /\ updateCreditLineAccounting(balance + amount, interestOwed + interest,
            principalOwed + principal, nextDueTime, termEnd, lastFull)
  BY Zenon DEF Drawdown, AccruedAsOf
<1>2. /\ ScheduleInv
      /\ balance \in Nat /\ interestOwed \in Nat /\ principalOwed \in Nat
      /\ nextDueTime \in Nat /\ now \in Nat
      /\ nextDueTime = 0 \/ nextDueTime >= StartTime
      /\ nextDueTime <= now + terms.paymentPeriod
      /\ terms \in LoanTerms /\ StartTime \in Nat \ {0}
      /\ accruedAt \in Nat /\ lastFull \in Nat /\ lastFull <= now
      /\ termEnd \in Nat /\ termEnd >= StartTime
  BY TermsFacts, CreditLineAssumption
  DEF TimesInv, ScheduleInv, TypeOK, SinceStart, PaymentSchedule, NothingAheadOfTime
<1>3. interestAccruedAsOf' \in {now, interestAccruedAsOf}
  BY <1>1
<1> HIDE DEF accruedAt, lastFull, termEnd
<1>4. interest \in Nat
  BY <1>2, InterestFacts
<1>5. principal \in 0..balance
  BY <1>2, PrincipalFacts
<1> HIDE DEF interest, principal
<1> DEFINE b == balance + amount
           i == interestOwed + interest
           q == principalOwed + principal
<1>6. b \in Nat /\ i \in Nat /\ q \in Nat
  BY <1>2, <1>4, <1>5
<1>7. updateCreditLineAccounting(b, i, q, nextDueTime, termEnd, lastFull)
  BY <1>1
<1> HIDE DEF b, i, q
<1>8. /\ nextDueTime' <= now + terms.paymentPeriod
      /\ lastFullPaymentTime' <= now
  BY <1>2, <1>6, <1>7, UpdateTimes
<1> QED
  BY <1>3, <1>8

LEMMA TimesInit == Init => TimesInv
<1> SUFFICES ASSUME Init PROVE TimesInv
  OBVIOUS
<1>1. ScheduleInv
  BY ScheduleInit
<1>2. terms.paymentPeriod \in Nat
  BY <1>1, TermsFacts DEF ScheduleInv, TypeOK
<1> QED
  BY <1>1, <1>2 DEF Init, TimesInv, NothingAheadOfTime, InterestAccruedInPast,
                    ScheduleInv, TypeOK

\* A step keeps the times behind the clock, and accrues no time twice.
LEMMA TimesStep ==
    ASSUME SamePaymentPeriod, TimesInv, [Next]_clVars
    PROVE  TimesInv' /\ interestAccruedAsOf' >= interestAccruedAsOf
<1>1. /\ ScheduleInv /\ ScheduleInv'
      /\ now \in Nat /\ usdc \in Nat /\ Amounts \subseteq Nat
      /\ terms \in Terms /\ terms.paymentPeriod \in Nat
      /\ interestAccruedAsOf \in Nat /\ interestAccruedAsOf <= now
      /\ lastFullPaymentTime \in Nat /\ lastFullPaymentTime <= now
      /\ nextDueTime \in Nat /\ nextDueTime <= now + terms.paymentPeriod
  BY ScheduleStep, TermsFacts, CreditLineAssumption
  DEF TimesInv, ScheduleInv, TypeOK, NothingAheadOfTime, InterestAccruedInPast
<1> DEFINE Goal ==
              /\ interestAccruedAsOf' <= now' /\ interestAccruedAsOf' >= interestAccruedAsOf
              /\ lastFullPaymentTime' <= now'
              /\ nextDueTime' <= now' + terms'.paymentPeriod
<1>2. SUFFICES Goal
  BY <1>1, <1>2 DEF TimesInv, NothingAheadOfTime, InterestAccruedInPast
<1>3. ASSUME NEW payment \in Nat, assess(payment), UNCHANGED <<now, terms>>
      PROVE  Goal
  <2>1. CASE TooEarly
    BY <1>1, <1>3, <2>1 DEF assess, accounting
  <2>2. CASE ~TooEarly
    <3>1. /\ TimeToAssess \in Nat /\ TimeToAssess <= now
          /\ NewInterest \in Nat
          /\ TimeToAssess <= interestAccruedAsOf => NewInterest = 0
          /\ interestAccruedAsOf' =
                IF NewInterest > 0 THEN TimeToAssess ELSE interestAccruedAsOf
          /\ nextDueTime' <= now + terms.paymentPeriod
          /\ lastFullPaymentTime' <= now
      BY <1>3, <2>2, AssessTimes
    <3> QED
      BY <1>1, <1>3, <3>1
  <2> QED
    BY <2>1, <2>2
<1>4. CASE Tick
  BY <1>1, <1>4 DEF Tick, accounting
<1>5. CASE Assess
  BY <1>1, <1>3, <1>5 DEF Assess
<1>6. CASE Sweep
  BY <1>1, <1>6 DEF Sweep, accounting
<1>7. ASSUME NEW amount \in Amounts, NEW limit \in Limits \cup {currentLimit},
             Drawdown(amount, limit)
      PROVE  Goal
  <2>1. /\ interestAccruedAsOf' \in {now, interestAccruedAsOf}
        /\ nextDueTime' <= now + terms.paymentPeriod
        /\ lastFullPaymentTime' <= now
    BY <1>1, <1>7, DrawdownTimes
  <2>2. UNCHANGED <<now, terms>>
    BY <1>7 DEF Drawdown
  <2> QED
    BY <1>1, <2>1, <2>2
<1>8. ASSUME NEW amount \in Amounts, Pay(amount) PROVE Goal
  BY <1>1, <1>3, <1>8 DEF Pay
<1>9. ASSUME NEW amount \in Amounts \cup Limits,
             Receive(amount) \/ SetLimit(amount) \/ SetMaxLimit(amount)
      PROVE  Goal
  BY <1>1, <1>9 DEF Receive, SetLimit, SetMaxLimit, accounting
<1>10. ASSUME NEW newTerms \in Terms, NEW limit \in Limits,
              Migrate(newTerms, limit)
       PROVE  Goal
  <2>1. newTerms.paymentPeriod = terms.paymentPeriod
    BY <1>1, SamePaymentPeriod DEF SamePaymentPeriod
  <2> QED
    BY <1>1, <1>10, <2>1 DEF Migrate, accounting
<1>11. CASE UNCHANGED clVars
  BY <1>1, <1>11 DEF clVars, accounting
<1> QED
  BY <1>4, <1>5, <1>6, <1>7, <1>8, <1>9, <1>10, <1>11 DEF Next

\* While migrations keep the payment period, interest is never accrued, and no payment
\* is recorded, as of a time that has not come: the subtractions from block.timestamp
\* in isLate and lateFeeApplicable never underflow.
THEOREM NothingAheadOfTimeCorrect ==
    ASSUME SamePaymentPeriod PROVE Spec => []NothingAheadOfTime
<1>1. TimesInv /\ [Next]_clVars => TimesInv'
  BY TimesStep
<1>2. TimesInv => NothingAheadOfTime
  BY DEF TimesInv
<1> QED
  BY <1>1, <1>2, TimesInit, PTL DEF Spec

\* While migrations keep the payment period, no instant is charged for twice.
THEOREM AccrualNeverRewindsCorrect ==
    ASSUME SamePaymentPeriod PROVE Spec => AccrualNeverRewinds
<1>1. TimesInv /\ [Next]_clVars => TimesInv'
  BY TimesStep
<1>2. TimesInv /\ [Next]_clVars => [interestAccruedAsOf' >= interestAccruedAsOf]_clVars
  BY TimesStep
<1> QED
  BY <1>1, <1>2, TimesInit, PTL DEF Spec, AccrualNeverRewinds
-----------------------------------------------------------------------------
(* Principal owed.                                                         *)

\* Division rounds down no more of what is more.
LEMMA DivMonotone ==
    ASSUME NEW a \in Nat, NEW b \in Nat, NEW c \in Nat \ {0}, a <= b
    PROVE  a \div c <= b \div c
<1> DEFINE x == a \div c
           y == b \div c
<1>1. x \in Nat /\ y \in Nat /\ x * c <= a /\ b < (y + 1) * c
  BY DivFacts
<1> HIDE DEF x, y
<1>2. ASSUME y + 1 <= x PROVE FALSE
  <2>1. x = (y + 1) + (x - (y + 1)) /\ x - (y + 1) \in Nat
    BY <1>1, <1>2
  <2> DEFINE d == x - (y + 1)
  <2> HIDE DEF d
  <2>2. x * c = (y + 1) * c + d * c /\ d * c \in Nat
    BY <1>1, <2>1 DEF d
  <2> QED
    BY <1>1, <2>2
<1>3. x <= y
  BY <1>1, <1>2
<1> QED
  BY <1>3 DEF x, y

\* While there is no dust, a line with a balance accrues some over any time.
LEMMA SomeInterestAccrues ==
    ASSUME NoDust, terms \in Terms, balance \in Nat \ {0},
           NEW accruedAsOf \in Nat, NEW lastFull \in Nat, NEW t \in Nat,
           accruedAsOf < t
    PROVE  calculateInterestAccrued(terms, balance, accruedAsOf, lastFull, t) > 0
<1> DEFINE elapsed == t - Smaller(t, accruedAsOf)
           perYear == (balance * terms.interestApr) \div INTEREST_DECIMALS
<1>1. elapsed \in Nat \ {0}
  BY DEF Smaller
<1>2. terms.interestApr \in Nat /\ terms.lateFeeApr \in Nat
  BY TermsFacts DEF LoanTerms
<1> HIDE DEF elapsed
<1>3. SimpleInterest(balance, terms.interestApr, elapsed) > 0
  <2>1. balance * terms.interestApr \in Nat
    BY <1>2
  <2>2. perYear \in Nat
    BY <2>1, DivFacts, AccountantAssumption
  <2>3. (perYear * 1) \div SECONDS_PER_YEAR > 0
    BY DEF NoDust, SimpleInterest
  <2> HIDE DEF perYear
  <2>4. perYear * 1 \in Nat /\ perYear * elapsed \in Nat /\ perYear * 1 <= perYear * elapsed
    BY <1>1, <2>2
  <2>5. (perYear * 1) \div SECONDS_PER_YEAR <= (perYear * elapsed) \div SECONDS_PER_YEAR
    BY <2>4, DivMonotone, AccountantAssumption
  <2>6. /\ (perYear * 1) \div SECONDS_PER_YEAR \in Nat
        /\ (perYear * elapsed) \div SECONDS_PER_YEAR \in Nat
    BY <2>4, DivFacts, AccountantAssumption
  <2>7. (perYear * elapsed) \div SECONDS_PER_YEAR > 0
    BY <2>3, <2>5, <2>6
  <2> QED
    BY <2>7 DEF SimpleInterest, perYear
<1>4. /\ SimpleInterest(balance, terms.interestApr, elapsed) \in Nat
      /\ SimpleInterest(balance, terms.lateFeeApr, elapsed) \in Nat
  BY <1>1, <1>2, SimpleInterestFacts
<1> QED
  BY <1>3, <1>4 DEF calculateInterestAccrued, elapsed

\* A payment reaches the balance that is not owed only once the principal owed is
\* paid: it leaves no more owed than borrowed.
LEMMA AllocationWithinBalance ==
    ASSUME NEW p \in Nat, NEW b \in Nat, NEW i \in Nat, NEW q \in 0..b
    PROVE  LET pa == allocatePayment(p, b, i, q)
           IN  q - pa.principalPayment
                 <= b - (pa.principalPayment + pa.additionalBalancePayment)
BY DEF allocatePayment, Smaller

\* An assessment charges the principal only when it was not charged before, and then
\* moves the interest clock past the end of the term.
LEMMA AssessPrincipal ==
    ASSUME NoDust, PrincipalInv, NEW payment \in Nat,
           assess(payment), ~TooEarly
    PROVE  /\ principalOwed' <= balance'
           /\ principalOwed' > 0 => interestAccruedAsOf' >= termEndTime'
<1>1. /\ balance > 0 /\ CanAssess(payment) /\ handlePayment(payment)
      /\ ScheduleInv
  BY DEF assess, PrincipalInv
<1>2. /\ terms \in Terms /\ terms \in LoanTerms
      /\ balance \in Nat /\ interestOwed \in Nat /\ principalOwed \in Nat
      /\ interestAccruedAsOf \in Nat /\ lastFullPaymentTime \in Nat
      /\ termEndTime \in Nat /\ TimeToAssess \in Nat
  BY <1>1, TimeToAssessFacts, TermsFacts DEF ScheduleInv, TypeOK
<1>3. /\ principalOwed <= balance
      /\ principalOwed > 0 => interestAccruedAsOf >= termEndTime
  BY DEF PrincipalInv, PrincipalOwedWithinBalance
<1>4. NewInterest \in Nat /\ NewPrincipal \in 0..balance
  BY <1>1, AssessmentFacts
<1>5. NewPrincipal > 0 =>
        interestAccruedAsOf < termEndTime /\ termEndTime <= TimeToAssess
  BY <1>2 DEF NewPrincipal, calculatePrincipalAccrued
<1>6. interestAccruedAsOf < TimeToAssess => NewInterest > 0
  BY <1>1, <1>2, SomeInterestAccrues DEF NewInterest
<1>7. TimeToAssess <= interestAccruedAsOf => NewInterest = 0
  BY <1>2, InterestFacts DEF NewInterest
<1> DEFINE q == principalOwed + NewPrincipal
           i == interestOwed + NewInterest
           pp == Allocation(payment).principalPayment
           ab == Allocation(payment).additionalBalancePayment
<1>8. q \in 0..balance /\ i \in Nat
  BY <1>2, <1>3, <1>4, <1>5
<1>9. Allocation(payment) = allocatePayment(payment, balance, i, q)
  BY DEF Allocation
<1>10. PrincipalPayment(payment) = pp + ab
  BY DEF PrincipalPayment
<1>11. pp \in 0..q
  BY <1>1, AssessmentFacts
<1>12. /\ balance' = balance - PrincipalPayment(payment)
       /\ principalOwed' = q - pp
       /\ termEndTime' = termEndTime
       /\ interestAccruedAsOf' =
             IF NewInterest > 0 THEN TimeToAssess ELSE interestAccruedAsOf
  <2>1. /\ balance' = balance - PrincipalPayment(payment)
        /\ principalOwed' =
             principalOwed + NewPrincipal - Allocation(payment).principalPayment
        /\ termEndTime' = termEndTime
        /\ interestAccruedAsOf' =
             IF NewInterest > 0 THEN TimeToAssess ELSE interestAccruedAsOf
    BY <1>1 DEF handlePayment, updateCreditLineAccounting, AccruedAsOf
  <2> QED
    BY <1>2, <1>4, <1>8, <1>11, <2>1
<1>13. q - pp <= balance - (pp + ab)
  <2> DEFINE pa == allocatePayment(payment, balance, i, q)
  <2> HIDE DEF q, i
  <2>1. q - pa.principalPayment
          <= balance - (pa.principalPayment + pa.additionalBalancePayment)
    BY <1>2, <1>8, AllocationWithinBalance
  <2> QED
    BY <1>9, <2>1
<1>14. principalOwed' <= balance'
  BY <1>10, <1>12, <1>13
<1>15. q > 0 => interestAccruedAsOf' >= termEndTime'
  BY <1>2, <1>3, <1>4, <1>5, <1>6, <1>7, <1>12
<1> HIDE DEF q, pp
<1> QED
  BY <1>8, <1>11, <1>12, <1>14, <1>15

\* A drawdown comes before the end of the term, when no principal is charged.
LEMMA DrawdownPrincipal ==
    ASSUME PrincipalInv, NEW amount \in Nat, NEW limit, Drawdown(amount, limit)
    PROVE  /\ principalOwed' <= balance'
           /\ principalOwed' > 0 => interestAccruedAsOf' >= termEndTime'
<1> DEFINE opening   == balance = 0
           accruedAt == IF opening THEN now ELSE interestAccruedAsOf
           lastFull  == IF opening THEN now ELSE lastFullPaymentTime
           termEnd   == IF opening /\ termEndTime = 0
                        THEN now + terms.term ELSE termEndTime
           interest  == calculateInterestAccrued(terms, balance, accruedAt, lastFull, now)
           principal == calculatePrincipalAccrued(balance, accruedAt, termEnd, now)
<1>1. /\ termEndTime = 0 \/ now < termEndTime
      /\ amount > 0
      /\ termEndTime' = termEnd
      /\ interestAccruedAsOf' = IF interest > 0 THEN now ELSE accruedAt
      /\ updateCreditLineAccounting(balance + amount, interestOwed + interest,
            principalOwed + principal, nextDueTime, termEnd, lastFull)
  BY Zenon DEF Drawdown, AccruedAsOf
<1>2. /\ ScheduleInv
      /\ balance \in Nat /\ principalOwed \in Nat /\ now \in Nat
      /\ terms \in LoanTerms /\ terms.term \in Nat \ {0}
      /\ accruedAt \in Nat /\ lastFull \in Nat
      /\ termEndTime \in Nat /\ (balance > 0 => termEndTime > 0)
      /\ principalOwed <= balance
      /\ principalOwed > 0 => interestAccruedAsOf >= termEndTime
  BY TermsFacts
  DEF PrincipalInv, PrincipalOwedWithinBalance, ScheduleInv, TypeOK, PaymentSchedule
<1>3. now < termEnd
  BY <1>1, <1>2
<1>4. principal = 0
  BY <1>2, <1>3 DEF calculatePrincipalAccrued
<1>5. /\ balance' = balance + amount
      /\ principalOwed' = principalOwed + principal
  BY <1>1 DEF updateCreditLineAccounting
<1>6. interest = 0 \/ accruedAt < now
  <2>1. /\ terms \in LoanTerms /\ balance \in Nat /\ accruedAt \in Nat
        /\ lastFull \in Nat /\ now \in Nat
    BY <1>2
  <2> HIDE DEF accruedAt, lastFull
  <2> QED
    BY <2>1, InterestFacts
<1> HIDE DEF interest, principal
<1> QED
  BY <1>1, <1>2, <1>3, <1>4, <1>5, <1>6

LEMMA PrincipalInit == Init => PrincipalInv
BY ScheduleInit DEF Init, PrincipalInv, PrincipalOwedWithinBalance

LEMMA PrincipalStep ==
    ASSUME NoDust, PrincipalInv, [Next]_clVars
    PROVE  PrincipalInv'
<1>1. /\ ScheduleInv /\ ScheduleInv' /\ usdc \in Nat /\ Amounts \subseteq Nat
      /\ principalOwed <= balance
      /\ principalOwed > 0 => interestAccruedAsOf >= termEndTime
  BY ScheduleStep, CreditLineAssumption
  DEF PrincipalInv, PrincipalOwedWithinBalance, ScheduleInv, TypeOK
<1> DEFINE Goal == /\ principalOwed' <= balance'
                   /\ principalOwed' > 0 => interestAccruedAsOf' >= termEndTime'
<1>2. SUFFICES Goal
  BY <1>1, <1>2 DEF PrincipalInv, PrincipalOwedWithinBalance
<1>3. ASSUME UNCHANGED accounting PROVE Goal
  BY <1>1, <1>3 DEF accounting
<1>4. ASSUME NEW payment \in Nat, assess(payment) PROVE Goal
  <2>1. CASE TooEarly
    BY <1>3, <1>4, <2>1 DEF assess
  <2>2. CASE ~TooEarly
    BY <1>4, <2>2, AssessPrincipal
  <2> QED
    BY <2>1, <2>2
<1>5. CASE Tick
  BY <1>3, <1>5 DEF Tick
<1>6. CASE Assess
  BY <1>1, <1>4, <1>6 DEF Assess
<1>7. CASE Sweep
  BY <1>3, <1>7 DEF Sweep
<1>8. ASSUME NEW amount \in Amounts, NEW limit \in Limits \cup {currentLimit},
             Drawdown(amount, limit)
      PROVE  Goal
  BY <1>1, <1>8, DrawdownPrincipal
<1>9. ASSUME NEW amount \in Amounts, Pay(amount) PROVE Goal
  BY <1>1, <1>4, <1>9 DEF Pay
<1>10. ASSUME NEW amount \in Amounts \cup Limits,
              Receive(amount) \/ SetLimit(amount) \/ SetMaxLimit(amount)
       PROVE  Goal
  BY <1>3, <1>10 DEF Receive, SetLimit, SetMaxLimit
<1>11. ASSUME NEW newTerms \in Terms, NEW limit \in Limits, Migrate(newTerms, limit)
       PROVE  Goal
  BY <1>3, <1>11 DEF Migrate
<1>12. CASE UNCHANGED clVars
  BY <1>3, <1>12 DEF clVars
<1> QED
  BY <1>5, <1>6, <1>7, <1>8, <1>9, <1>10, <1>11, <1>12 DEF Next

\* While there is no dust, no more principal is ever owed than is borrowed: the end
\* of the term charges it once, though payments, drawdowns and migrations come in
\* any order before and after it.
THEOREM PrincipalOwedWithinBalanceCorrect ==
    Spec /\ []NoDust => []PrincipalOwedWithinBalance
<1>1. NoDust /\ PrincipalInv /\ [Next]_clVars => PrincipalInv'
  BY PrincipalStep
<1>2. PrincipalInv => PrincipalOwedWithinBalance
  BY DEF PrincipalInv
<1> QED
  BY <1>1, <1>2, PrincipalInit, PTL DEF Spec

-----------------------------------------------------------------------------
(* Due times.                                                              *)

\* What is known of a line with a balance.
LEMMA LineFacts ==
    ASSUME ScheduleInv, balance > 0
    PROVE  /\ terms \in Terms /\ terms \in LoanTerms
           /\ terms.paymentPeriod \in Nat \ {0}
           /\ now \in Nat \ {0} /\ now >= StartTime
           /\ balance \in Nat \ {0} /\ interestOwed \in Nat /\ principalOwed \in Nat
           /\ nextDueTime \in Nat \ {0} /\ termEndTime \in Nat \ {0}
           /\ interestAccruedAsOf \in Nat /\ lastFullPaymentTime \in Nat
BY TermsFacts DEF ScheduleInv, TypeOK, SinceStart, PaymentSchedule

\* How the due time moves on: not before it has come, then by whole periods to
\* the first that lies ahead, or to the end of the term.
LEMMA UpdatedDueTimeFacts ==
    ASSUME ScheduleInv, balance > 0
    PROVE  /\ UpdatedDueTime \in Nat \ {0}
           /\ nextDueTime > now => UpdatedDueTime = nextDueTime
           /\ nextDueTime <= now =>
                /\ UpdatedDueTime = Smaller(NextPeriodEnd(nextDueTime), termEndTime)
                /\ NextPeriodEnd(nextDueTime) \in Nat
                /\ NextPeriodEnd(nextDueTime) > now
                /\ NextPeriodEnd(nextDueTime) - terms.paymentPeriod >= nextDueTime
                /\ NextPeriodEnd(nextDueTime) - terms.paymentPeriod <= now
           /\ UpdatedDueTime <= now => UpdatedDueTime = termEndTime
           /\ UpdatedDueTime <= now \/ nextDueTime > now \/ UpdatedDueTime <= termEndTime
           /\ TimeToAssess = IF UpdatedDueTime > now
                             THEN UpdatedDueTime - terms.paymentPeriod ELSE UpdatedDueTime
           /\ TimeToAssess \in Nat
<1>0. /\ terms \in Terms /\ terms.paymentPeriod \in Nat \ {0}
      /\ now \in Nat \ {0} /\ balance \in Nat \ {0}
      /\ nextDueTime \in Nat \ {0} /\ termEndTime \in Nat \ {0}
  BY LineFacts
<1>1. /\ UpdatedDueTime \in Nat /\ TimeToAssess \in Nat
      /\ UpdatedDueTime >= StartTime /\ StartTime \in Nat \ {0}
  BY TimeToAssessFacts, CreditLineAssumption
<1>2. CASE nextDueTime > now
  BY <1>0, <1>1, <1>2 DEF UpdatedDueTime, calculateNextDueTime, TimeToAssess
<1>3. CASE nextDueTime <= now
  <2>1. UpdatedDueTime = Smaller(NextPeriodEnd(nextDueTime), termEndTime)
    BY <1>0, <1>3 DEF UpdatedDueTime, calculateNextDueTime
  <2>2. /\ NextPeriodEnd(nextDueTime) \in Nat
        /\ NextPeriodEnd(nextDueTime) > now
        /\ NextPeriodEnd(nextDueTime) <= now + terms.paymentPeriod
    BY <1>0, <1>3, PeriodEndFacts
  <2>3. NextPeriodEnd(nextDueTime) - terms.paymentPeriod >= nextDueTime
    <3> DEFINE k == (now - nextDueTime) \div terms.paymentPeriod
               P == terms.paymentPeriod
    <3>1. k \in Nat
      BY <1>0, <1>3, DivFacts
    <3>2. NextPeriodEnd(nextDueTime) = nextDueTime + (k + 1) * P
      BY DEF NextPeriodEnd
    <3> HIDE DEF k
    <3>3. (k + 1) * P = k * P + P /\ k * P \in Nat
      BY <1>0, <3>1
    <3> QED
      BY <1>0, <3>2, <3>3
  <2> QED
    BY <1>0, <1>1, <1>3, <2>1, <2>2, <2>3 DEF Smaller, TimeToAssess
<1> QED
  BY <1>0, <1>2, <1>3

\* An assessment that is not too early records the due time it assessed for.
LEMMA AssessDueTimes ==
    ASSUME ScheduleInv, NEW payment \in Nat, assess(payment), ~TooEarly
    PROVE  /\ balance > 0
           /\ balance' > 0 => nextDueTime' = UpdatedDueTime
           /\ lastFullPaymentTime' =
                IF interestOwed' = 0 THEN MostRecentDueTime(UpdatedDueTime)
                ELSE lastFullPaymentTime
           /\ termEndTime' = termEndTime
<1>1. /\ balance > 0 /\ handlePayment(payment)
  BY DEF assess
<1>2. UpdatedDueTime # 0 /\ UpdatedDueTime \in Nat
  BY <1>1, UpdatedDueTimeFacts
<1>3. /\ lastFullPaymentTime' =
            IF interestOwed' = 0 THEN MostRecentDueTime(UpdatedDueTime)
            ELSE lastFullPaymentTime
      /\ nextDueTime' = calculateNextDueTime(balance', UpdatedDueTime, termEndTime)
      /\ termEndTime' = termEndTime
  BY <1>1, <1>2 DEF handlePayment, updateCreditLineAccounting
<1>4. balance' \in Nat
  BY AssessInv DEF AccountingInv
<1>5. ASSUME balance' > 0 PROVE nextDueTime' = UpdatedDueTime
  <2>1. /\ terms \in Terms /\ now \in Nat /\ termEndTime \in Nat
    BY <1>1, LineFacts
  <2>2. CASE UpdatedDueTime > now
    BY <1>2, <1>3, <1>4, <1>5, <2>1, <2>2 DEF calculateNextDueTime
  <2>3. CASE UpdatedDueTime <= now
    <3>1. UpdatedDueTime = termEndTime
      BY <1>1, <2>3, UpdatedDueTimeFacts
    <3>2. NextPeriodEnd(UpdatedDueTime) \in Nat /\ NextPeriodEnd(UpdatedDueTime) > now
      BY <1>2, <2>1, <2>3, PeriodEndFacts
    <3>3. nextDueTime' = Smaller(NextPeriodEnd(UpdatedDueTime), termEndTime)
      BY <1>2, <1>3, <1>4, <1>5, <2>1, <2>3 DEF calculateNextDueTime
    <3> QED
      BY <1>2, <2>1, <2>3, <3>1, <3>2, <3>3 DEF Smaller
  <2> QED
    BY <1>2, <2>1, <2>2, <2>3
<1> QED
  BY <1>1, <1>3, <1>5

\* Every complete period that has passed by its due time is charged at the next
\* assessment, as long as whole periods are left: for every schedule.
THEOREM WholePeriodsAssessedCorrect == Spec => []WholePeriodsAssessed
<1>1. ScheduleInv => WholePeriodsAssessed
  <2> SUFFICES ASSUME ScheduleInv, balance > 0, nextDueTime <= now, WholePeriodsLeft
               PROVE  /\ TimeToAssess >= nextDueTime
                      /\ \/ now - TimeToAssess < terms.paymentPeriod
                         \/ TimeToAssess = termEndTime
    BY DEF WholePeriodsAssessed
  <2> DEFINE P == terms.paymentPeriod
             end == NextPeriodEnd(nextDueTime)
             k == (now - nextDueTime) \div P
             m == (termEndTime - nextDueTime) \div P
  <2>1. /\ P \in Nat \ {0} /\ now \in Nat /\ nextDueTime \in Nat /\ termEndTime \in Nat
    BY LineFacts
  <2>2. /\ UpdatedDueTime = Smaller(end, termEndTime)
        /\ end \in Nat /\ end > now /\ end - P >= nextDueTime /\ end - P <= now
        /\ TimeToAssess = IF UpdatedDueTime > now THEN UpdatedDueTime - P ELSE UpdatedDueTime
    BY UpdatedDueTimeFacts
  <2>3. end = nextDueTime + (k + 1) * P /\ k \in Nat
    BY <2>1, DivFacts DEF NextPeriodEnd
  <2>4. termEndTime = nextDueTime + m * P /\ m \in Nat
    <3>1. termEndTime - nextDueTime \in Nat /\ (termEndTime - nextDueTime) % P = 0
      BY <2>1 DEF WholePeriodsLeft
    <3>2. \A a \in Nat : a % P = 0 => a = (a \div P) * P /\ a \div P \in Nat
      BY <2>1
    <3> HIDE DEF P
    <3>3. termEndTime - nextDueTime = m * P /\ m \in Nat
      BY <3>1, <3>2
    <3> HIDE DEF m
    <3>4. m * P \in Nat
      BY <2>1, <3>3
    <3> QED
      BY <2>1, <3>3, <3>4
  <2> HIDE DEF P, end, k, m
  <2>5. ASSUME termEndTime > end - P PROVE termEndTime >= end
    <3>1. (k + 1) * P = k * P + P /\ k * P \in Nat /\ m * P \in Nat
      BY <2>1, <2>3, <2>4
    <3>2. m * P > k * P
      BY <2>1, <2>2, <2>3, <2>4, <2>5, <3>1
    <3>3. m > k
      <4> SUFFICES ASSUME m <= k PROVE FALSE
        BY <2>3, <2>4
      <4>1. m * P <= k * P
        BY <2>1, <2>3, <2>4
      <4> QED
        BY <3>1, <3>2, <4>1
    <3>4. m * P >= (k + 1) * P
      BY <2>1, <2>3, <2>4, <3>3
    <3> QED
      BY <2>1, <2>2, <2>3, <2>4, <3>1, <3>4
  <2> QED
    BY <2>1, <2>2, <2>5 DEF WholePeriodsLeft, Smaller, P
<1> QED
  BY <1>1, ScheduleInvariant, PTL

\* A drawdown comes before the end of the term. The first one opens a period at now;
\* any other moves the due time on as an assessment does.
LEMMA DrawdownDueTimes ==
    ASSUME TimesInv, NEW amount \in Nat, NEW limit, Drawdown(amount, limit)
    PROVE  /\ balance' > 0 /\ now < termEndTime' /\ termEndTime' \in Nat
           /\ balance = 0 =>
                /\ nextDueTime' = now + terms.paymentPeriod
                /\ lastFullPaymentTime' = now
                /\ interestAccruedAsOf' = now
           /\ balance > 0 =>
                /\ termEndTime' = termEndTime
                /\ nextDueTime' = UpdatedDueTime
                /\ lastFullPaymentTime' =
                     IF interestOwed' = 0 THEN MostRecentDueTime(nextDueTime)
                     ELSE lastFullPaymentTime
                /\ interestOwed' = 0 =>
                     /\ interestOwed = 0
                     /\ interestAccruedAsOf' = interestAccruedAsOf
                     /\ NoDust => interestAccruedAsOf = now
<1> DEFINE opening   == balance = 0
           accruedAt == IF opening THEN now ELSE interestAccruedAsOf
           lastFull  == IF opening THEN now ELSE lastFullPaymentTime
           termEnd   == IF opening /\ termEndTime = 0
                        THEN now + terms.term ELSE termEndTime
           interest  == calculateInterestAccrued(terms, balance, accruedAt, lastFull, now)
           principal == calculatePrincipalAccrued(balance, accruedAt, termEnd, now)
<1>1. /\ termEndTime = 0 \/ now < termEndTime
      /\ amount > 0
      /\ termEndTime' = termEnd
      /\ interestAccruedAsOf' = IF interest > 0 THEN now ELSE accruedAt
      /\ updateCreditLineAccounting(balance + amount, interestOwed + interest,
            principalOwed + principal, nextDueTime, termEnd, lastFull)
  BY Zenon DEF Drawdown, AccruedAsOf
<1>2. /\ ScheduleInv
      /\ balance \in Nat /\ interestOwed \in Nat /\ nextDueTime \in Nat
      /\ now \in Nat \ {0} /\ termEndTime \in Nat
      /\ terms \in Terms /\ terms \in LoanTerms /\ terms.term \in Nat \ {0}
      /\ terms.paymentPeriod \in Nat \ {0}
      /\ (balance > 0 <=> nextDueTime > 0) /\ (balance = 0 => interestOwed = 0)
      /\ (balance > 0 => termEndTime > 0)
      /\ interestAccruedAsOf \in Nat /\ interestAccruedAsOf <= now
      /\ lastFullPaymentTime \in Nat
  BY TermsFacts DEF TimesInv, NothingAheadOfTime, InterestAccruedInPast,
                    ScheduleInv, TypeOK, PaymentSchedule
<1>3. accruedAt \in Nat /\ lastFull \in Nat /\ termEnd \in Nat /\ now < termEnd
  BY <1>1, <1>2
<1>4. interest \in Nat /\ (balance = 0 => interest = 0)
  <2>1. /\ terms \in LoanTerms /\ balance \in Nat /\ accruedAt \in Nat
        /\ lastFull \in Nat /\ now \in Nat
    BY <1>2, <1>3
  <2> HIDE DEF accruedAt, lastFull
  <2> QED
    BY <2>1, InterestFacts
<1>5. ASSUME NoDust, balance > 0, interest = 0 PROVE interestAccruedAsOf = now
  <2>1. accruedAt = interestAccruedAsOf
    BY <1>5
  <2>2. balance \in Nat \ {0}
    BY <1>2, <1>5
  <2> HIDE DEF accruedAt, lastFull, termEnd
  <2>3. ~ accruedAt < now
    BY <1>2, <1>3, <1>5, <2>2, SomeInterestAccrues
  <2> QED
    BY <1>2, <2>1, <2>3
<1> HIDE DEF interest, principal
<1>6. /\ balance' = balance + amount
      /\ interestOwed' = interestOwed + interest
      /\ lastFullPaymentTime' =
            IF interestOwed' = 0 /\ nextDueTime # 0 THEN MostRecentDueTime(nextDueTime)
            ELSE lastFull
      /\ nextDueTime' = calculateNextDueTime(balance', nextDueTime, termEnd)
  BY <1>1 DEF updateCreditLineAccounting
<1>7. CASE balance = 0
  BY <1>1, <1>2, <1>3, <1>4, <1>6, <1>7 DEF calculateNextDueTime
<1>8. CASE balance > 0
  <2>1. nextDueTime' = UpdatedDueTime
    BY <1>1, <1>2, <1>6, <1>8 DEF calculateNextDueTime, UpdatedDueTime
  <2> QED
    BY <1>1, <1>2, <1>3, <1>4, <1>5, <1>6, <1>8, <2>1
<1> QED
  BY <1>2, <1>7, <1>8

\* The steps that leave the accounting of a line alone, and keep its payment period.
QuietStep ==
    UNCHANGED accounting /\ now' >= now /\ terms'.paymentPeriod = terms.paymentPeriod

\* A step is quiet, a drawdown, or an assessment.
LEMMA StepKinds ==
    ASSUME SamePaymentPeriod, ScheduleInv, [Next]_clVars
    PROVE  \/ QuietStep
           \/ UNCHANGED <<now, terms>> /\ \E amount \in Nat : \E limit : Drawdown(amount, limit)
           \/ /\ UNCHANGED <<now, terms>>
              /\ \E payment \in Nat : assess(payment) /\ ~TooEarly
<1>1. /\ usdc \in Nat /\ Amounts \subseteq Nat /\ now \in Nat /\ terms \in Terms
  BY CreditLineAssumption DEF ScheduleInv, TypeOK
<1>2. ASSUME NEW payment \in Nat, assess(payment), UNCHANGED <<now, terms>>
      PROVE  QuietStep \/ (assess(payment) /\ ~TooEarly)
  BY <1>1, <1>2 DEF assess, QuietStep
<1>3. CASE Tick
  BY <1>1, <1>3 DEF Tick, QuietStep
<1>4. CASE Assess
  BY <1>1, <1>2, <1>4 DEF Assess
<1>5. CASE Sweep
  BY <1>1, <1>5 DEF Sweep, QuietStep
<1>6. ASSUME NEW amount \in Amounts, NEW limit \in Limits \cup {currentLimit},
             Drawdown(amount, limit)
      PROVE  UNCHANGED <<now, terms>> /\ \E a \in Nat : \E l : Drawdown(a, l)
  BY <1>1, <1>6 DEF Drawdown
<1>7. ASSUME NEW amount \in Amounts, Pay(amount)
      PROVE  \/ QuietStep
             \/ /\ UNCHANGED <<now, terms>>
                /\ \E payment \in Nat : assess(payment) /\ ~TooEarly
  BY <1>1, <1>2, <1>7 DEF Pay
<1>8. ASSUME NEW amount \in Amounts \cup Limits,
             Receive(amount) \/ SetLimit(amount) \/ SetMaxLimit(amount)
      PROVE  QuietStep
  BY <1>1, <1>8 DEF Receive, SetLimit, SetMaxLimit, QuietStep
<1>9. ASSUME NEW newTerms \in Terms, NEW limit \in Limits, Migrate(newTerms, limit)
      PROVE  QuietStep
  BY <1>1, <1>9 DEF Migrate, QuietStep, SamePaymentPeriod
<1>10. CASE UNCHANGED clVars
  BY <1>1, <1>10 DEF clVars, QuietStep
<1> QED
  BY <1>3, <1>4, <1>5, <1>6, <1>7, <1>8, <1>9, <1>10 DEF Next

LEMMA DueTimesInit == Init => DueTimesInv
BY TimesInit DEF Init, DueTimesInv

LEMMA DueTimesStep ==
    ASSUME SamePaymentPeriod, DueTimesInv, [Next]_clVars
    PROVE  DueTimesInv'
<1>0. TimesInv /\ TimesInv' /\ ScheduleInv /\ ScheduleInv'
  BY TimesStep DEF DueTimesInv, TimesInv
<1> DEFINE Goal == balance' > 0 =>
              /\ \/ lastFullPaymentTime' <= nextDueTime' - terms'.paymentPeriod
                 \/ nextDueTime' >= termEndTime'
              /\ lastFullPaymentTime' <= termEndTime'
              /\ nextDueTime' < termEndTime' + terms'.paymentPeriod
<1>1. SUFFICES Goal
  BY <1>0, <1>1 DEF DueTimesInv
<1>2. balance > 0 => /\ \/ lastFullPaymentTime <= nextDueTime - terms.paymentPeriod
                        \/ nextDueTime >= termEndTime
                     /\ lastFullPaymentTime <= termEndTime
                     /\ nextDueTime < termEndTime + terms.paymentPeriod
  BY DEF DueTimesInv
<1>3. CASE QuietStep
  BY <1>2, <1>3 DEF QuietStep, accounting
<1>4. ASSUME NEW amount \in Nat, NEW limit, Drawdown(amount, limit), UNCHANGED <<now, terms>>
      PROVE  Goal
  <2>1. CASE balance = 0
    <3>1. now \in Nat /\ terms.paymentPeriod \in Nat
      BY <1>0, TermsFacts DEF ScheduleInv, TypeOK
    <3> QED
      BY <1>0, <1>4, <2>1, <3>1, DrawdownDueTimes
  <2>2. CASE balance > 0
    <3>1. /\ now < termEndTime /\ termEndTime' = termEndTime
          /\ nextDueTime' = UpdatedDueTime
          /\ lastFullPaymentTime' \in {MostRecentDueTime(nextDueTime), lastFullPaymentTime}
      BY <1>0, <1>4, <2>2, DrawdownDueTimes
    <3>2. /\ terms.paymentPeriod \in Nat \ {0} /\ now \in Nat
          /\ nextDueTime \in Nat /\ termEndTime \in Nat /\ lastFullPaymentTime \in Nat
      BY <1>0, <2>2, LineFacts
    <3>3. CASE nextDueTime > now
      <4>1. UpdatedDueTime = nextDueTime
        BY <1>0, <2>2, <3>3, UpdatedDueTimeFacts
      <4>2. MostRecentDueTime(nextDueTime) = nextDueTime - terms.paymentPeriod
        BY <3>2, <3>3 DEF MostRecentDueTime
      <4> QED
        BY <1>2, <1>4, <2>2, <3>1, <3>2, <4>1, <4>2
    <3>4. CASE nextDueTime <= now
      <4>1. /\ UpdatedDueTime = Smaller(NextPeriodEnd(nextDueTime), termEndTime)
            /\ NextPeriodEnd(nextDueTime) \in Nat
            /\ NextPeriodEnd(nextDueTime) > now
            /\ NextPeriodEnd(nextDueTime) - terms.paymentPeriod >= nextDueTime
        BY <1>0, <2>2, <3>4, UpdatedDueTimeFacts
      <4>2. MostRecentDueTime(nextDueTime) = nextDueTime
        BY <3>2, <3>4 DEF MostRecentDueTime
      <4> QED
        BY <1>2, <1>4, <2>2, <3>1, <3>2, <3>4, <4>1, <4>2 DEF Smaller
    <3> QED
      BY <3>2, <3>3, <3>4
  <2>3. balance \in Nat
    BY <1>0 DEF ScheduleInv, TypeOK
  <2> QED
    BY <2>1, <2>2, <2>3
<1>5. ASSUME NEW payment \in Nat, assess(payment), ~TooEarly, UNCHANGED <<now, terms>>
      PROVE  Goal
  <2>1. /\ balance > 0 /\ termEndTime' = termEndTime
        /\ balance' > 0 => nextDueTime' = UpdatedDueTime
        /\ lastFullPaymentTime' \in {MostRecentDueTime(UpdatedDueTime), lastFullPaymentTime}
    BY <1>0, <1>5, AssessDueTimes
  <2>2. /\ terms.paymentPeriod \in Nat \ {0} /\ now \in Nat
        /\ nextDueTime \in Nat /\ termEndTime \in Nat /\ lastFullPaymentTime \in Nat
    BY <1>0, <2>1, LineFacts
  <2>3. UpdatedDueTime \in Nat
    BY <1>0, <2>1, UpdatedDueTimeFacts
  <2>4. CASE UpdatedDueTime <= now
    <3>1. UpdatedDueTime = termEndTime /\ MostRecentDueTime(UpdatedDueTime) = termEndTime
      BY <1>0, <2>1, <2>2, <2>3, <2>4, UpdatedDueTimeFacts DEF MostRecentDueTime
    <3> QED
      BY <1>2, <1>5, <2>1, <2>2, <3>1
  <2>5. CASE UpdatedDueTime > now
    <3>1. MostRecentDueTime(UpdatedDueTime) = UpdatedDueTime - terms.paymentPeriod
      BY <2>2, <2>3, <2>5 DEF MostRecentDueTime
    <3>2. \/ UpdatedDueTime = nextDueTime
          \/ UpdatedDueTime <= termEndTime /\ nextDueTime <= now
      BY <1>0, <2>1, <2>2, <2>5, UpdatedDueTimeFacts
    <3> QED
      BY <1>2, <1>5, <2>1, <2>2, <2>3, <2>5, <3>1, <3>2
  <2> QED
    BY <2>2, <2>3, <2>4, <2>5
<1> QED
  BY <1>0, <1>3, <1>4, <1>5, StepKinds

\* While migrations keep the payment period and there is no dust, no payment is ever
\* stuck: no subtraction of assess underflows, whatever was drawn, paid or received
\* before and in whatever period of the term, its last and short one included.
THEOREM AssessNeverRevertsCorrect ==
    ASSUME SamePaymentPeriod PROVE Spec /\ []NoDust => []AssessNeverReverts
<1>1. DueTimesInv /\ PrincipalInv => AssessNeverReverts
  <2> SUFFICES ASSUME DueTimesInv, PrincipalInv, balance > 0, NEW payment \in 0..MaxUsdc
               PROVE  CanAssess(payment)
    BY DEF AssessNeverReverts
  <2>1. /\ terms \in Terms /\ terms.paymentPeriod \in Nat \ {0} /\ now \in Nat
        /\ balance \in Nat /\ principalOwed \in Nat /\ interestOwed \in Nat
        /\ nextDueTime \in Nat /\ termEndTime \in Nat
        /\ lastFullPaymentTime \in Nat /\ interestAccruedAsOf \in Nat
        /\ payment \in Nat /\ terms \in LoanTerms
    BY LineFacts, CreditLineAssumption DEF PrincipalInv
  <2>2. ScheduleInv /\ lastFullPaymentTime <= now
    BY DEF PrincipalInv, DueTimesInv, TimesInv, NothingAheadOfTime
  <2>3. UpdatedDueTime \in Nat /\ TimeToAssess \in Nat
    BY <2>2, UpdatedDueTimeFacts
  <2>4. ASSUME ~TooEarly PROVE lastFullPaymentTime <= TimeToAssess
    <3>1. /\ \/ lastFullPaymentTime <= nextDueTime - terms.paymentPeriod
             \/ nextDueTime >= termEndTime
          /\ lastFullPaymentTime <= termEndTime
      BY DEF DueTimesInv
    <3>2. CASE nextDueTime > now
      <4>1. now - lastFullPaymentTime > terms.paymentPeriod
        BY <2>4, <3>2 DEF TooEarly, isLate
      <4>2. TimeToAssess = nextDueTime - terms.paymentPeriod
        BY <2>1, <2>2, <3>2, UpdatedDueTimeFacts
      <4> QED
        BY <2>1, <3>2, <4>1, <4>2
    <3>3. CASE nextDueTime <= now
      <4>1. /\ UpdatedDueTime = Smaller(NextPeriodEnd(nextDueTime), termEndTime)
            /\ NextPeriodEnd(nextDueTime) \in Nat
            /\ NextPeriodEnd(nextDueTime) > now
            /\ NextPeriodEnd(nextDueTime) - terms.paymentPeriod >= nextDueTime
            /\ TimeToAssess = IF UpdatedDueTime > now
                              THEN UpdatedDueTime - terms.paymentPeriod ELSE UpdatedDueTime
        BY <2>2, <3>3, UpdatedDueTimeFacts
      <4> QED
        BY <2>1, <2>3, <3>1, <3>3, <4>1 DEF Smaller
    <3> QED
      BY <2>1, <3>2, <3>3
  <2>5. Allocation(payment).principalPayment <= balance
    <3> DEFINE q == principalOwed + NewPrincipal
               i == interestOwed + NewInterest
    <3>1. NewPrincipal \in 0..balance /\ NewInterest \in Nat
      BY <2>1, <2>3, PrincipalFacts, InterestFacts DEF NewPrincipal, NewInterest
    <3>2. NewPrincipal > 0 => interestAccruedAsOf < termEndTime
      BY DEF NewPrincipal, calculatePrincipalAccrued
    <3>3. /\ principalOwed <= balance
          /\ principalOwed > 0 => interestAccruedAsOf >= termEndTime
      BY DEF PrincipalInv, PrincipalOwedWithinBalance
    <3>4. q \in 0..balance /\ i \in Nat
      BY <2>1, <3>1, <3>2, <3>3
    <3>5. Allocation(payment).principalPayment = Smaller(q, payment - Smaller(i, payment))
      BY DEF Allocation, allocatePayment
    <3> HIDE DEF q, i
    <3> QED
      BY <2>1, <3>4, <3>5 DEF Smaller
  <2> QED
    BY <2>1, <2>2, <2>3, <2>4, <2>5 DEF CanAssess, CanSub
<1>2. DueTimesInv /\ [Next]_clVars => DueTimesInv'
  BY DueTimesStep
<1>3. NoDust /\ PrincipalInv /\ [Next]_clVars => PrincipalInv'
  BY PrincipalStep
<1> QED
  BY <1>1, <1>2, <1>3, DueTimesInit, PrincipalInit, PTL DEF Spec

LEMMA PaidUpStep ==
    ASSUME SamePaymentPeriod, NoDust, PaidUpInv, [Next]_clVars
    PROVE  PaidUpInv'
<1>0. TimesInv /\ TimesInv' /\ ScheduleInv /\ ScheduleInv' /\ interestAccruedAsOf <= now
  BY TimesStep DEF PaidUpInv, TimesInv, NothingAheadOfTime, InterestAccruedInPast
<1> DEFINE Goal == balance' > 0 /\ interestOwed' = 0 =>
              /\ now' < nextDueTime'
                   => lastFullPaymentTime' >= nextDueTime' - terms'.paymentPeriod
              /\ interestAccruedAsOf' < nextDueTime' \/ nextDueTime' >= termEndTime'
<1>1. SUFFICES Goal
  BY <1>0, <1>1 DEF PaidUpInv
<1>2. balance > 0 /\ interestOwed = 0 =>
         /\ now < nextDueTime => lastFullPaymentTime >= nextDueTime - terms.paymentPeriod
         /\ interestAccruedAsOf < nextDueTime \/ nextDueTime >= termEndTime
  BY DEF PaidUpInv
<1>3. CASE QuietStep
  <2>1. now \in Nat /\ now' \in Nat /\ nextDueTime \in Nat
    BY <1>0 DEF ScheduleInv, TypeOK
  <2> QED
    BY <1>2, <1>3, <2>1 DEF QuietStep, accounting
<1>4. ASSUME NEW amount \in Nat, NEW limit, Drawdown(amount, limit), UNCHANGED <<now, terms>>
      PROVE  Goal
  <2>1. CASE balance = 0
    <3>1. now \in Nat /\ terms.paymentPeriod \in Nat \ {0}
      BY <1>0, TermsFacts DEF ScheduleInv, TypeOK
    <3> QED
      BY <1>0, <1>4, <2>1, <3>1, DrawdownDueTimes
  <2>2. ASSUME balance > 0, interestOwed' = 0
        PROVE  Goal
    <3>1. /\ now < termEndTime /\ termEndTime' = termEndTime
          /\ nextDueTime' = UpdatedDueTime
          /\ lastFullPaymentTime' = MostRecentDueTime(nextDueTime)
          /\ interestOwed = 0 /\ interestAccruedAsOf' = interestAccruedAsOf
          /\ interestAccruedAsOf = now
      BY <1>0, <1>4, <2>2, DrawdownDueTimes
    <3>2. /\ terms.paymentPeriod \in Nat \ {0} /\ now \in Nat
          /\ nextDueTime \in Nat /\ termEndTime \in Nat
      BY <1>0, <2>2, LineFacts
    <3>3. nextDueTime > now
      BY <1>2, <2>2, <3>1, <3>2
    <3>4. UpdatedDueTime = nextDueTime
      BY <1>0, <2>2, <3>3, UpdatedDueTimeFacts
    <3> QED
      BY <1>4, <3>1, <3>2, <3>3, <3>4 DEF MostRecentDueTime
  <2>3. balance \in Nat
    BY <1>0 DEF ScheduleInv, TypeOK
  <2> QED
    BY <2>1, <2>2, <2>3
<1>5. ASSUME NEW payment \in Nat, assess(payment), ~TooEarly, UNCHANGED <<now, terms>>
      PROVE  Goal
  <2> SUFFICES ASSUME balance' > 0, interestOwed' = 0 PROVE Goal
    OBVIOUS
  <2>1. /\ balance > 0 /\ termEndTime' = termEndTime
        /\ nextDueTime' = UpdatedDueTime
        /\ lastFullPaymentTime' = MostRecentDueTime(UpdatedDueTime)
    BY <1>0, <1>5, AssessDueTimes
  <2>2. /\ terms.paymentPeriod \in Nat \ {0} /\ now \in Nat /\ termEndTime \in Nat
        /\ UpdatedDueTime \in Nat
    BY <1>0, <2>1, LineFacts, UpdatedDueTimeFacts
  <2>3. interestAccruedAsOf' \in Nat /\ interestAccruedAsOf' <= now
    BY <1>0, <1>5 DEF TimesInv, NothingAheadOfTime, InterestAccruedInPast, ScheduleInv, TypeOK
  <2>4. CASE UpdatedDueTime <= now
    <3>1. UpdatedDueTime = termEndTime
      BY <1>0, <2>1, <2>4, UpdatedDueTimeFacts
    <3> QED
      BY <1>5, <2>1, <2>2, <2>4, <3>1
  <2>5. CASE UpdatedDueTime > now
    BY <1>5, <2>1, <2>2, <2>3, <2>5 DEF MostRecentDueTime
  <2> QED
    BY <2>2, <2>4, <2>5
<1> QED
  BY <1>0, <1>3, <1>4, <1>5, StepKinds

\* While migrations keep the payment period and there is no dust, a borrower who owes
\* no interest is not late before the next due time, whatever drawdowns and
\* assessments moved the due time: PaidUpIsNotLate for all constants.
THEOREM PaidUpIsNotLateCorrect ==
    ASSUME SamePaymentPeriod PROVE Spec /\ []NoDust => []PaidUpIsNotLate
<1>1. NoDust /\ PaidUpInv /\ [Next]_clVars => PaidUpInv'
  BY PaidUpStep
<1>2. PaidUpInv => PaidUpIsNotLate
  <2> SUFFICES ASSUME PaidUpInv, balance > 0, interestOwed = 0, now < nextDueTime
               PROVE  ~ isLate(balance, lastFullPaymentTime)
    BY DEF PaidUpIsNotLate
  <2>1. lastFullPaymentTime >= nextDueTime - terms.paymentPeriod /\ ScheduleInv
    BY DEF PaidUpInv, TimesInv
  <2>2. /\ terms.paymentPeriod \in Nat /\ now \in Nat /\ nextDueTime \in Nat
        /\ lastFullPaymentTime \in Nat
    BY <2>1, LineFacts
  <2> QED
    BY <2>1, <2>2 DEF isLate
<1>3. Init => PaidUpInv
  BY TimesInit DEF Init, PaidUpInv
<1> QED
  BY <1>1, <1>2, <1>3, PTL DEF Spec

\* While there is no dust, an assessment leaves nothing to charge at the same time.
THEOREM AssessIsIdempotentCorrect == Spec /\ []NoDust => AssessIsIdempotent
<1> DEFINE Settled == \/ TooEarly
                      \/ NewInterest = 0 /\ NewPrincipal = 0 /\ UpdatedDueTime = nextDueTime
<1>1. ASSUME NoDust, ScheduleInv, ScheduleInv', NEW payment \in Nat, assess(payment),
             UNCHANGED <<now, terms>>, balance' > 0
      PROVE  Settled'
  <2>1. CASE TooEarly
    BY <1>1, <2>1 DEF assess, accounting, TooEarly, isLate
  <2>2. CASE ~TooEarly
    <3>1. /\ balance > 0 /\ handlePayment(payment) /\ CanAssess(payment)
          /\ termEndTime' = termEndTime /\ nextDueTime' = UpdatedDueTime
      BY <1>1, <2>2, AssessDueTimes DEF assess
    <3>2. /\ terms \in Terms /\ terms \in LoanTerms
          /\ terms.paymentPeriod \in Nat \ {0} /\ now \in Nat /\ termEndTime \in Nat
          /\ UpdatedDueTime \in Nat /\ balance \in Nat \ {0}
          /\ interestAccruedAsOf \in Nat /\ lastFullPaymentTime \in Nat
          /\ TimeToAssess \in Nat
      BY <1>1, <3>1, LineFacts, UpdatedDueTimeFacts
    <3>3. /\ interestAccruedAsOf' \in Nat
          /\ lastFullPaymentTime' \in Nat /\ balance' \in Nat
      BY <1>1, <3>1, <3>2 DEF ScheduleInv, TypeOK
    <3>4. NewInterest \in Nat /\ (NewInterest = 0 => TimeToAssess <= interestAccruedAsOf)
      <4>1. interestAccruedAsOf < TimeToAssess => NewInterest > 0
        BY <1>1, <3>2, SomeInterestAccrues DEF NewInterest
      <4>2. NewInterest \in Nat
        BY <3>2, InterestFacts DEF NewInterest
      <4> QED
        BY <3>2, <4>1, <4>2
    <3>5. interestAccruedAsOf' = IF NewInterest > 0 THEN TimeToAssess ELSE interestAccruedAsOf
      BY <3>1 DEF handlePayment, AccruedAsOf
    <3>6. interestAccruedAsOf' >= TimeToAssess
      BY <3>2, <3>4, <3>5
    <3>7. UpdatedDueTime' = nextDueTime' /\ TimeToAssess' = TimeToAssess
      <4>1. /\ TimeToAssess = IF UpdatedDueTime > now
                              THEN UpdatedDueTime - terms.paymentPeriod ELSE UpdatedDueTime
            /\ TimeToAssess' = IF UpdatedDueTime' > now
                               THEN UpdatedDueTime' - terms.paymentPeriod ELSE UpdatedDueTime'
        BY <1>1 DEF TimeToAssess
      <4>2. CASE UpdatedDueTime > now
        <5>1. UpdatedDueTime' = nextDueTime'
          BY <1>1, <3>1, <3>2, <3>3, <4>2 DEF UpdatedDueTime, calculateNextDueTime
        <5> QED
          BY <3>1, <4>1, <5>1
      <4>3. CASE UpdatedDueTime <= now
        <5>1. UpdatedDueTime = termEndTime
          BY <1>1, <3>1, <4>3, UpdatedDueTimeFacts
        <5> DEFINE end == NextPeriodEnd(UpdatedDueTime)
        <5>2. end \in Nat /\ end > now
          BY <3>2, <4>3, PeriodEndFacts
        <5>4. UpdatedDueTime' = Smaller(end, termEndTime)
          <6>1. ASSUME NEW d, nextDueTime' = d PROVE NextPeriodEnd(nextDueTime)' = NextPeriodEnd(d)
            BY <1>1, <6>1 DEF NextPeriodEnd
          <6>2. NextPeriodEnd(nextDueTime)' = end
            BY <3>1, <6>1
          <6>3. UpdatedDueTime' = Smaller(NextPeriodEnd(nextDueTime)', termEndTime')
            <7>1. nextDueTime' \in Nat \ {0} /\ nextDueTime' <= now'
              BY <1>1, <3>1, <3>2, <4>3, UpdatedDueTimeFacts
            <7> QED
              BY <1>1, <3>2, <3>3, <7>1 DEF UpdatedDueTime, calculateNextDueTime
          <6> QED
            BY <3>1, <6>2, <6>3
        <5> HIDE DEF end
        <5>3. UpdatedDueTime' = termEndTime'
          BY <3>1, <3>2, <4>3, <5>1, <5>2, <5>4 DEF Smaller
        <5> QED
          BY <3>1, <4>1, <5>1, <5>3
      <4> QED
        BY <3>2, <4>2, <4>3
    <3>8. NewInterest' = 0
      <4>1. NewInterest' = calculateInterestAccrued(terms', balance', interestAccruedAsOf',
                                                    lastFullPaymentTime', TimeToAssess')
        BY DEF NewInterest
      <4>2. TimeToAssess' <= interestAccruedAsOf' /\ terms' \in LoanTerms
        BY <1>1, <3>2, <3>6, <3>7
      <4> QED
        BY <3>2, <3>3, <3>7, <4>1, <4>2, InterestFacts
    <3>9. NewPrincipal' = 0
      <4>1. NewPrincipal' = calculatePrincipalAccrued(balance', interestAccruedAsOf',
                                                      termEndTime', TimeToAssess')
        BY DEF NewPrincipal
      <4> QED
        BY <3>1, <3>2, <3>3, <3>6, <3>7, <4>1 DEF calculatePrincipalAccrued
    <3> QED
      BY <3>7, <3>8, <3>9
  <2> QED
    BY <2>1, <2>2
<1>2. ASSUME NoDust, ScheduleInv, ScheduleInv', balance' > 0,
             Assess \/ \E amount \in Amounts : Pay(amount)
      PROVE  Settled'
  <2>1. usdc \in Nat /\ Amounts \subseteq Nat
    BY <1>2, CreditLineAssumption DEF ScheduleInv, TypeOK
  <2>2. PICK payment \in Nat : assess(payment)
    BY <1>2, <2>1 DEF Assess, Pay
  <2>3. UNCHANGED <<now, terms>>
    BY <1>2 DEF Assess, Pay
  <2> QED
    BY <1>1, <1>2, <2>2, <2>3
<1>3. NoDust /\ ScheduleInv /\ ScheduleInv' =>
        [balance' > 0 /\ (Assess \/ \E amount \in Amounts : Pay(amount))
           => \/ TooEarly'
              \/ /\ NewInterest' = 0
                 /\ NewPrincipal' = 0
                 /\ UpdatedDueTime' = nextDueTime']_clVars
  BY <1>2
<1> QED
  BY <1>3, ScheduleInvariant, PTL DEF AssessIsIdempotent
=============================================================================
