---------------------------- MODULE MCCreditLine ----------------------------
(* Instances of CreditLine for TLC. *)
EXTENDS CreditLineProperties

Loan1(apr, fee, period, length) ==
    [interestApr |-> apr, lateFeeApr |-> fee, paymentPeriod |-> period,
     term |-> length, principalGracePeriod |-> 2]

\* One period of 3 ticks for all: a term of two periods, one that ends within
\* its second period, and one shorter than a period; with and without late fees.
MCTerms == {Loan1(2, 0, 3, 6), Loan1(2, 2, 3, 5), Loan1(4, 0, 3, 2)}

\* One unit accrues a unit of interest each tick: no accrual rounds to zero.
ExactTerms == {Loan1(1, 0, 2, 4), Loan1(1, 1, 2, 3)}

\* The new line may have a much shorter payment period than the old one.
PeriodTerms == {Loan1(2, 0, 6, 12), Loan1(2, 0, 2, 12)}
\* A term that is not a whole number of periods, like 365 days by 30.
UnevenTerms == {Loan1(2, 0, 3, 8)}

\* A term of two whole periods.
EvenTerms == {Loan1(2, 0, 3, 6)}
=============================================================================
