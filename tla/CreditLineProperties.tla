------------------------ MODULE CreditLineProperties ------------------------
(***************************************************************************)
(* What is asked of CreditLine: invariants, action properties, and the     *)
(* abstract loan it implements.                                            *)
(***************************************************************************)
EXTENDS CreditLine

\* Type invariant: every amount and time the contract stores is a uint256
\* (here a natural number), and the terms are terms a line can have.
TypeOK ==
    /\ now \in Nat \ {0}
    /\ terms \in Terms
    /\ currentLimit \in Nat /\ maxLimit \in Nat
    /\ balance \in Nat
    /\ interestOwed \in Nat
    /\ principalOwed \in Nat
    /\ termEndTime \in Nat
    /\ nextDueTime \in Nat
    /\ interestAccruedAsOf \in Nat
    /\ lastFullPaymentTime \in Nat
    /\ totalInterestAccrued \in Nat
    /\ usdc \in Nat

\* Times that are set are not before the line was created, so that a period can
\* be subtracted from them (strengthens TypeOK for its proof).
SinceStart ==
    /\ now >= StartTime
    /\ nextDueTime = 0 \/ nextDueTime >= StartTime
    /\ termEndTime = 0 \/ termEndTime >= StartTime

-----------------------------------------------------------------------------
(* Invariants                                                              *)

\* There is a next due time exactly while something is borrowed, and a line
\* that is paid off owes no interest: calculateNextDueTime and the order in
\* which allocatePayment spends a payment keep the two apart from each other.
PaymentSchedule ==
    /\ balance > 0 <=> nextDueTime > 0
    /\ balance = 0 => interestOwed = 0
    /\ balance > 0 => termEndTime > 0

\* "The interestAccruedAsOf couldn't be *after* the current timestamp"
\* (Accountant.calculateInterestAccrued).
InterestAccruedInPast == interestAccruedAsOf <= now

\* Nor could the last full payment: isLate and lateFeeApplicable subtract it from
\* the time, and would revert.
NothingAheadOfTime == InterestAccruedInPast /\ lastFullPaymentTime <= now

\* A borrower who owes no interest and whose due time has not come is not late,
\* however the due times and the time of the last full payment were moved by
\* drawdowns, assessments and the shortened last period of the term.
PaidUpIsNotLate ==
    balance > 0 /\ interestOwed = 0 /\ now < nextDueTime
        => ~isLate(balance, lastFullPaymentTime)

\* A due time that has come is assessed for: the instant assess accrues to is no
\* earlier, "we always want to assess for the most recently *past* nextDueTime"
\* (CreditLine.assess).
LastDueTimeAssessed ==
    balance > 0 /\ nextDueTime <= now => TimeToAssess >= nextDueTime

\* The term ends a whole number of periods after the due time.
WholePeriodsLeft ==
    /\ nextDueTime <= termEndTime
    /\ (termEndTime - nextDueTime) % terms.paymentPeriod = 0

\* So it is when whole periods are left, and then no complete period before the
\* end of the term is left out either.
WholePeriodsAssessed ==
    balance > 0 /\ nextDueTime <= now /\ WholePeriodsLeft
        => /\ TimeToAssess >= nextDueTime
           /\ now - TimeToAssess < terms.paymentPeriod \/ TimeToAssess = termEndTime

\* "Never return something after the termEndTime" (calculateNextDueTime).
DueTimeWithinTerm == nextDueTime <= termEndTime

\* Principal is charged at the end of the term and once: no more is ever owed
\* than is borrowed.  "If we've already accrued principal as of the term end
\* time, then don't accrue more principal" (calculatePrincipalAccrued).
PrincipalOwedWithinBalance == principalOwed <= balance

\* A line with a balance can be assessed, whatever USDC has arrived: no
\* subtraction of assess or handlePayment underflows, so no payment is stuck.
AssessNeverReverts ==
    balance > 0 => \A payment \in 0..MaxUsdc : CanAssess(payment)

\* The inductive invariant behind TypeOK and PaymentSchedule.
ScheduleInv == TypeOK /\ SinceStart /\ PaymentSchedule

\* No migration changes the payment period.
SamePaymentPeriod ==
    \A a, b \in Terms : a.paymentPeriod = b.paymentPeriod

\* The inductive invariant behind NothingAheadOfTime, when no migration changes the
\* payment period: the due time is at most a period away.
TimesInv ==
    /\ ScheduleInv
    /\ NothingAheadOfTime
    /\ nextDueTime <= now + terms.paymentPeriod

\* What is borrowed is no dust: a tick of interest on it does not round to zero. At
\* 10% a year a balance of 316 USDC accrues its first unit in a second.
NoDust == balance > 0 => SimpleInterest(balance, terms.interestApr, 1) > 0

\* The inductive invariant behind PrincipalOwedWithinBalance, while there is no dust:
\* principal is owed only once the end of the term has been accrued to.
PrincipalInv ==
    /\ ScheduleInv
    /\ PrincipalOwedWithinBalance
    /\ principalOwed > 0 => interestAccruedAsOf >= termEndTime

\* The inductive invariant behind AssessNeverReverts, when no migration changes the
\* payment period: the last full payment is a period before the due time, but for
\* the last one, and the due time is less than a period past the term.
DueTimesInv ==
    /\ TimesInv
    /\ balance > 0 =>
         /\ \/ lastFullPaymentTime <= nextDueTime - terms.paymentPeriod
            \/ nextDueTime >= termEndTime
         /\ lastFullPaymentTime <= termEndTime
         /\ nextDueTime < termEndTime + terms.paymentPeriod

\* The inductive invariant behind PaidUpIsNotLate, while there is no dust either:
\* without interest owed the borrower is current as of the due time before, and
\* interest has not been accrued to the next.
PaidUpInv ==
    /\ TimesInv
    /\ balance > 0 /\ interestOwed = 0 =>
         /\ now < nextDueTime => lastFullPaymentTime >= nextDueTime - terms.paymentPeriod
         /\ interestAccruedAsOf < nextDueTime \/ nextDueTime >= termEndTime

-----------------------------------------------------------------------------
(* Action properties                                                       *)

\* Interest is charged once for each instant: the time up to which it has been
\* accrued never moves back, though assess may be given a time in the past.
AccrualNeverRewinds ==
    [][interestAccruedAsOf' >= interestAccruedAsOf]_clVars

\* Assessing again in the same block charges nothing more and moves no due time.
AssessIsIdempotent ==
    [][balance' > 0 /\ (Assess \/ \E amount \in Amounts : Pay(amount))
        => \/ TooEarly'
           \/ /\ NewInterest' = 0
              /\ NewPrincipal' = 0
              /\ UpdatedDueTime' = nextDueTime']_clVars

-----------------------------------------------------------------------------
(* Refinement                                                              *)

L == INSTANCE Loan WITH outstanding <- balance, interest <- interestOwed,
                        maturity <- termEndTime

\* Every history of the credit line, seen as principal outstanding, interest owed
\* and maturity, is a history of the abstract loan: the maturity is set once,
\* interest is settled before principal, nothing is charged on a zero balance.
ImplementsLoan == L!Spec
=============================================================================
