----------------------------- MODULE Accountant -----------------------------
(***************************************************************************)
(* The library contract Accountant.sol: how much interest and principal a  *)
(* credit line accrues between two instants, and how a payment is divided. *)
(*                                                                         *)
(* Time is counted in ticks; periods that the contracts keep in days are   *)
(* numbers of ticks here.  Amounts are atomic USDC units.  Solidity's "/"  *)
(* on uint256 is \div.  A SafeMath subtraction that would underflow        *)
(* reverts: the modules that use these operators carry it as a guard.      *)
(***************************************************************************)
EXTENDS Integers

CONSTANTS
    INTEREST_DECIMALS,   \* the unit of an APR (1e18 in the contract)
    SECONDS_PER_YEAR,    \* ticks in a year
    LatenessGracePeriod  \* GoldfinchConfig's lateness grace period, in ticks

ASSUME AccountantAssumption ==
    /\ INTEREST_DECIMALS \in Nat \ {0}
    /\ SECONDS_PER_YEAR \in Nat \ {0}
    /\ LatenessGracePeriod \in Nat

\* The terms a credit line is initialised with (CreditLine.sol "Credit line
\* terms").  A period or term of zero divides by zero or matures at once;
\* migrateCreditLine rejects both.
LoanTerms ==
    [interestApr : Nat, lateFeeApr : Nat, paymentPeriod : Nat \ {0},
     term : Nat \ {0}, principalGracePeriod : Nat]

\* OpenZeppelin's Math.min
Smaller(a, b) == IF a < b THEN a ELSE b

\* SafeMath's a.sub(b) does not revert
CanSub(a, b) == b <= a

-----------------------------------------------------------------------------

\* Interest on `balance` at rate `apr` for `elapsed` ticks: two divisions,
\* each rounding down.
SimpleInterest(balance, apr, elapsed) ==
    (((balance * apr) \div INTEREST_DECIMALS) * elapsed) \div SECONDS_PER_YEAR

lateFeeApplicable(loan, lastFull, timestamp) ==
    loan.lateFeeApr > 0 /\ timestamp - lastFull > LatenessGracePeriod

\* Interest accrued up to `timestamp` by a line that has accrued as of
\* `accruedAsOf`; zero when `timestamp` is not later.
calculateInterestAccrued(loan, balance, accruedAsOf, lastFull, timestamp) ==
    LET elapsed == timestamp - Smaller(timestamp, accruedAsOf)
    IN  SimpleInterest(balance, loan.interestApr, elapsed)
          + (IF lateFeeApplicable(loan, lastFull, timestamp)
             THEN SimpleInterest(balance, loan.lateFeeApr, elapsed)
             ELSE 0)

\* Variant: the balance falls due at every accrual past the end of the term.
PrincipalAccruedAgain(balance, accruedAsOf, termEnd, timestamp) ==
    IF timestamp >= termEnd THEN balance ELSE 0

\* The whole balance falls due at the end of the term, the first time the
\* line accrues to it.
calculatePrincipalAccrued(balance, accruedAsOf, termEnd, timestamp) ==
    IF accruedAsOf < termEnd /\ timestamp >= termEnd THEN balance ELSE 0

\* Variants: principal is paid before interest; the rest is not capped by the balance.
PrincipalFirst(payment, balance, owedInterest, owedPrincipal) ==
    LET principal == Smaller(balance, payment)
    IN  [interestPayment          |-> Smaller(owedInterest, payment - principal),
         principalPayment         |-> Smaller(owedPrincipal, principal),
         additionalBalancePayment |-> principal - Smaller(owedPrincipal, principal)]
WholePaymentApplied(payment, balance, owedInterest, owedPrincipal) ==
    LET interest  == Smaller(owedInterest, payment)
        principal == Smaller(owedPrincipal, payment - interest)
    IN  [interestPayment          |-> interest,
         principalPayment         |-> principal,
         additionalBalancePayment |-> payment - interest - principal]

\* A payment covers interest, then the principal owed, then the balance.
allocatePayment(payment, balance, owedInterest, owedPrincipal) ==
    LET interest  == Smaller(owedInterest, payment)
        principal == Smaller(owedPrincipal, payment - interest)
    IN  [interestPayment          |-> interest,
         principalPayment         |-> principal,
         additionalBalancePayment |->
             Smaller(payment - interest - principal, balance - principal)]
=============================================================================
