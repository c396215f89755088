-------------------------------- MODULE Loan --------------------------------
(***************************************************************************)
(* What a credit line promises its pool and its borrower, without its      *)
(* schedule: principal is drawn before maturity and from a borrower who is *)
(* told the maturity once; interest is charged only on what is borrowed;   *)
(* and a repayment never reaches the principal while interest is owed.     *)
(***************************************************************************)
EXTENDS Integers

VARIABLES
    now,
    outstanding,   \* principal borrowed and not repaid
    interest,      \* interest charged and not paid
    maturity       \* 0 until the first draw

loanVars == <<now, outstanding, interest, maturity>>

Init ==
    /\ now \in Nat \ {0}
    /\ outstanding = 0
    /\ interest = 0
    /\ maturity = 0

\* Interest up to now may be charged on what was borrowed before.
Draw ==
    /\ maturity = 0 \/ now < maturity
    /\ outstanding' > outstanding
    /\ interest' >= interest
    /\ outstanding = 0 => interest' = 0
    /\ IF maturity = 0 THEN maturity' > now ELSE UNCHANGED maturity
    /\ UNCHANGED now

\* A charge, a repayment, or both at once: principal moves only once the
\* interest is settled, and cannot go below zero.
Settle ==
    /\ outstanding > 0
    /\ outstanding' \in 0..outstanding
    /\ interest' >= 0
    /\ outstanding' < outstanding => interest' = 0
    /\ UNCHANGED <<now, maturity>>

Tick ==
    /\ now' > now
    /\ UNCHANGED <<outstanding, interest, maturity>>

Next == Draw \/ Settle \/ Tick

Spec == Init /\ [][Next]_loanVars
=============================================================================
