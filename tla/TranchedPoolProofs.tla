------------------------- MODULE TranchedPoolProofs -------------------------
(***************************************************************************)
(* Theorems about TranchedPool with its credit line, its tokens and the    *)
(* waterfall, for every choice of amounts, limits, terms and bounds.       *)
(***************************************************************************)
EXTENDS TranchedPoolProperties, CreditLineProofs, TranchingLogicProofs

(* The pool does to its credit line only what the credit line's own        *)
(* specification allows, whose theorems therefore hold of the pool.        *)

LEMMA LimitOnLockAllowed ==
    ASSUME PoolInv, ScheduleInv, Current \in DOMAIN slices
    PROVE  LimitOnLock \in Limits
<1>1. /\ currentLimit \in Nat /\ maxLimit \in Limits /\ maxLimit \in Nat
      /\ 0..maxLimit \subseteq Limits
  BY TranchedPoolAssumption DEF PoolInv, ScheduleInv, TypeOK
<1>2. Deposited(slices[Current]) \in Nat
  <2>1. slices[Current] \in SliceType
    BY DEF PoolInv, PoolTypeOK, LedgerOk
  <2> QED BY <2>1, SliceFacts
<1> QED BY <1>1, <1>2 DEF LimitOnLock, Smaller

LEMMA LineStep ==
    ASSUME PoolInv, ScheduleInv, [PoolNext]_<<clVars, poolVars>>
    PROVE  [Next]_clVars
<1>1. Current \in DOMAIN slices
  BY DEF PoolInv, PoolTypeOK, LedgerOk, Current
<1>2. LimitOnLock \in Limits
  BY <1>1, LimitOnLockAllowed
<1>3. /\ DrawAmounts \subseteq Amounts /\ Donations \subseteq Amounts
      /\ AdminLimits \subseteq Limits
  BY TranchedPoolAssumption
<1>4. CASE LockPool
  BY <1>2, <1>4 DEF LockPool, Next
<1>5. CASE \E amount \in DrawAmounts : PoolDrawdown(amount)
  BY <1>2, <1>3, <1>5 DEF PoolDrawdown, Next
<1>6. CASE PoolAssess
  BY <1>6 DEF PoolAssess, Next
<1>7. CASE \E amount \in Amounts : PoolPay(amount)
  BY <1>7 DEF PoolPay, Next
<1>8. CASE EmergencyShutdown
  BY <1>8 DEF EmergencyShutdown, Next
<1>9. CASE CreditLineOnly
  BY <1>3, <1>9 DEF CreditLineOnly, Next
<1>10. CASE UNCHANGED <<clVars, poolVars>>
  BY <1>10
<1>11. CASE \E kind \in Kinds, amount \in DepositAmounts : Deposit(kind, amount)
  BY <1>11 DEF Deposit
<1>12. CASE \E id \in DOMAIN tokens :
               \/ \E amount \in DepositAmounts \cup {Redeemable(id)} : Withdraw(id, amount)
               \/ Burn(id)
  BY <1>12 DEF Withdraw, Burn
<1>13. CASE LockJuniorCapital
  BY <1>13 DEF LockJuniorCapital
<1>14. CASE \E time \in FundableTimes : SetFundableAt(time) \/ InitializeNextSlice(time)
  BY <1>14 DEF SetFundableAt, InitializeNextSlice
<1>15. CASE \E value \in PauseValues : SetPaused(value) \/ SetDrawdownsPaused(value)
  BY <1>15 DEF SetPaused, SetDrawdownsPaused
<1> QED
  BY <1>4, <1>5, <1>6, <1>7, <1>8, <1>9, <1>10, <1>11, <1>12, <1>13, <1>14, <1>15
  DEF PoolNext
-----------------------------------------------------------------------------
(* What the slices count together, when one of them is replaced or added.  *)

LEMMA LedgerTotals ==
    ASSUME NEW pool
    PROVE  /\ DeployedIn(pool)
                = SumFunctionOnSet([i \in DOMAIN pool |-> pool[i].principalDeployed], DOMAIN pool)
           /\ DepositedIn(pool)
                = SumFunctionOnSet([i \in DOMAIN pool |-> Deposited(pool[i])], DOMAIN pool)
           /\ EntitledIn(pool)
                = SumFunctionOnSet([i \in DOMAIN pool |-> SliceEntitlement(pool[i])], DOMAIN pool)
<1> DEFINE d == [i \in DOMAIN pool |-> pool[i].principalDeployed]
           p == [i \in DOMAIN pool |-> Deposited(pool[i])]
           e == [i \in DOMAIN pool |-> SliceEntitlement(pool[i])]
<1>1. DOMAIN d = DOMAIN pool /\ DOMAIN p = DOMAIN pool /\ DOMAIN e = DOMAIN pool
  OBVIOUS
<1>2. e = [i \in DOMAIN pool |-> Entitlement(pool[i].senior) + Entitlement(pool[i].junior)]
  BY DEF SliceEntitlement
<1> QED
  BY <1>1, <1>2 DEF DeployedIn, DepositedIn, EntitledIn, SumOfSlices, SumFunction

LEMMA SlicesFinite ==
    ASSUME NEW pool \in Seq(SliceType)
    PROVE  /\ IsFiniteSet(DOMAIN pool)
           /\ DOMAIN pool = 1..Len(pool) /\ Len(pool) \in Nat
           /\ \A i \in DOMAIN pool : pool[i] \in SliceType
BY FS_Interval

LEMMA TotalsAreNatural ==
    ASSUME NEW pool \in Seq(SliceType)
    PROVE  /\ DeployedIn(pool) \in Nat /\ DepositedIn(pool) \in Nat /\ EntitledIn(pool) \in Nat
           /\ \A i \in DOMAIN pool : pool[i].principalDeployed <= DeployedIn(pool)
<1> DEFINE S == DOMAIN pool
           d == [i \in S |-> pool[i].principalDeployed]
           p == [i \in S |-> Deposited(pool[i])]
           e == [i \in S |-> SliceEntitlement(pool[i])]
<1>1. IsFiniteSet(S)
  BY SlicesFinite
<1>2. \A i \in S : d[i] \in Nat /\ p[i] \in Nat /\ e[i] \in Nat
                   /\ d[i] = pool[i].principalDeployed
  BY SlicesFinite, SliceFacts
<1>3. /\ DeployedIn(pool) = SumFunctionOnSet(d, S)
      /\ DepositedIn(pool) = SumFunctionOnSet(p, S)
      /\ EntitledIn(pool) = SumFunctionOnSet(e, S)
  BY LedgerTotals
<1> HIDE DEF S, d, p, e
<1>4. /\ SumFunctionOnSet(d, S) \in Nat
      /\ \A i \in S : d[i] <= SumFunctionOnSet(d, S)
  BY <1>1, <1>2, SumOfNaturals
<1>5. SumFunctionOnSet(p, S) \in Nat /\ SumFunctionOnSet(e, S) \in Nat
  BY <1>1, <1>2, SumOfNaturals
<1> QED BY <1>2, <1>3, <1>4, <1>5 DEF S

\* What one slice's replacement changes in the totals.
Replaced(before, after, i) ==
    /\ after \in Seq(SliceType)
    /\ Len(after) = Len(before) /\ DOMAIN after = DOMAIN before
    /\ \A j \in DOMAIN before \ {i} : after[j] = before[j]
    /\ DeployedIn(after) = DeployedIn(before) - before[i].principalDeployed
                             + after[i].principalDeployed
    /\ DepositedIn(after) = DepositedIn(before) - Deposited(before[i]) + Deposited(after[i])
    /\ EntitledIn(after) = EntitledIn(before) - SliceEntitlement(before[i])
                             + SliceEntitlement(after[i])

LEMMA SliceReplaced ==
    ASSUME NEW pool \in Seq(SliceType), NEW i \in DOMAIN pool, NEW slice \in SliceType
    PROVE  /\ Replaced(pool, [pool EXCEPT ![i] = slice], i)
           /\ [pool EXCEPT ![i] = slice][i] = slice
<1> DEFINE after == [pool EXCEPT ![i] = slice]
           S == DOMAIN pool
           d == [j \in S |-> pool[j].principalDeployed]
           p == [j \in S |-> Deposited(pool[j])]
           e == [j \in S |-> SliceEntitlement(pool[j])]
           d2 == [j \in S |-> after[j].principalDeployed]
           p2 == [j \in S |-> Deposited(after[j])]
           e2 == [j \in S |-> SliceEntitlement(after[j])]
<1>1. /\ after \in Seq(SliceType) /\ Len(after) = Len(pool) /\ DOMAIN after = S
      /\ \A j \in S \ {i} : after[j] = pool[j]
      /\ after[i] = slice
  OBVIOUS
<1>2. IsFiniteSet(S) /\ \A j \in S : pool[j] \in SliceType /\ after[j] \in SliceType
  BY <1>1, SlicesFinite
<1>3. /\ DeployedIn(pool) = SumFunctionOnSet(d, S)
      /\ DepositedIn(pool) = SumFunctionOnSet(p, S)
      /\ EntitledIn(pool) = SumFunctionOnSet(e, S)
  BY LedgerTotals
<1>4. /\ DeployedIn(after) = SumFunctionOnSet(d2, S)
      /\ DepositedIn(after) = SumFunctionOnSet(p2, S)
      /\ EntitledIn(after) = SumFunctionOnSet(e2, S)
  <2> HIDE DEF after
  <2> QED BY <1>1, LedgerTotals
<1>5. \A j \in S : /\ d[j] = pool[j].principalDeployed /\ d2[j] = after[j].principalDeployed
                   /\ p[j] = Deposited(pool[j]) /\ p2[j] = Deposited(after[j])
                   /\ e[j] = SliceEntitlement(pool[j]) /\ e2[j] = SliceEntitlement(after[j])
  OBVIOUS
<1> HIDE DEF after, d, p, e, d2, p2, e2
<1>6. \A j \in S : /\ d[j] \in Int /\ d2[j] \in Int /\ p[j] \in Int /\ p2[j] \in Int
                   /\ e[j] \in Int /\ e2[j] \in Int
  <2> SUFFICES ASSUME NEW j \in S
      PROVE  /\ d[j] \in Int /\ d2[j] \in Int /\ p[j] \in Int /\ p2[j] \in Int
             /\ e[j] \in Int /\ e2[j] \in Int
    OBVIOUS
  <2>1. /\ pool[j].principalDeployed \in Nat /\ Deposited(pool[j]) \in Nat
        /\ SliceEntitlement(pool[j]) \in Nat
    BY <1>2, SliceFacts
  <2>2. /\ after[j].principalDeployed \in Nat /\ Deposited(after[j]) \in Nat
        /\ SliceEntitlement(after[j]) \in Nat
    BY <1>2, SliceFacts
  <2> QED BY <1>5, <2>1, <2>2
<1>7. \A j \in S \ {i} : d2[j] = d[j] /\ p2[j] = p[j] /\ e2[j] = e[j]
  BY <1>1, <1>5
<1> HIDE DEF S
<1>8. i \in S
  BY DEF S
<1>9. SumFunctionOnSet(d2, S) = SumFunctionOnSet(d, S) - d[i] + d2[i]
  BY <1>2, <1>6, <1>7, <1>8, SumUpdate
<1>10. SumFunctionOnSet(p2, S) = SumFunctionOnSet(p, S) - p[i] + p2[i]
  BY <1>2, <1>6, <1>7, <1>8, SumUpdate
<1>11. SumFunctionOnSet(e2, S) = SumFunctionOnSet(e, S) - e[i] + e2[i]
  BY <1>2, <1>6, <1>7, <1>8, SumUpdate
<1>12. Replaced(pool, after, i)
  BY <1>1, <1>3, <1>4, <1>5, <1>8, <1>9, <1>10, <1>11 DEF Replaced, S
<1> QED BY <1>1, <1>12 DEF after

LEMMA NewSliceFacts ==
    /\ NewSlice \in SliceType
    /\ NewSlice.principalDeployed = 0 /\ Deposited(NewSlice) = 0
    /\ SliceEntitlement(NewSlice) = 0
    /\ ~isLocked(NewSlice) /\ AtPar(NewSlice)
    /\ \A kind \in Kinds : NewSlice[kind].principalDeposited = 0
<1>1. NewTranche \in TrancheType
  BY Scaling DEF NewTranche, TrancheType
<1>2. NewSlice \in SliceType
  BY <1>1 DEF NewSlice, SliceType
<1>3. Entitlement(NewTranche) = 0
  BY ParFacts DEF Entitlement, NewTranche
<1>4. NewSlice.senior = NewTranche /\ NewSlice.junior = NewTranche
  BY DEF NewSlice
<1>5. \A kind \in Kinds : NewSlice[kind] = NewTranche
  BY <1>4 DEF Kinds
<1>6. /\ NewTranche.principalDeposited = 0 /\ NewTranche.lockedUntil = 0
      /\ NewTranche.principalSharePrice = FP_SCALING_FACTOR
      /\ NewTranche.interestSharePrice = 0
  BY DEF NewTranche
<1>7. NewSlice.principalDeployed = 0
  BY DEF NewSlice
<1> QED
  BY <1>2, <1>3, <1>4, <1>5, <1>6, <1>7 DEF Deposited, SliceEntitlement, isLocked, AtPar

LEMMA SliceAdded ==
    ASSUME NEW pool \in Seq(SliceType)
    PROVE  LET after == Append(pool, NewSlice)
           IN  /\ after \in Seq(SliceType) /\ Len(after) = Len(pool) + 1
               /\ DOMAIN after = DOMAIN pool \cup {Len(pool) + 1}
               /\ Len(pool) + 1 \notin DOMAIN pool
               /\ \A j \in DOMAIN pool : after[j] = pool[j]
               /\ after[Len(pool) + 1] = NewSlice
               /\ DeployedIn(after) = DeployedIn(pool)
               /\ DepositedIn(after) = DepositedIn(pool)
               /\ EntitledIn(after) = EntitledIn(pool)
<1> DEFINE after == Append(pool, NewSlice)
           S == DOMAIN pool
           x == Len(pool) + 1
           d == [j \in S |-> pool[j].principalDeployed]
           p == [j \in S |-> Deposited(pool[j])]
           e == [j \in S |-> SliceEntitlement(pool[j])]
           d2 == [j \in S \cup {x} |-> after[j].principalDeployed]
           p2 == [j \in S \cup {x} |-> Deposited(after[j])]
           e2 == [j \in S \cup {x} |-> SliceEntitlement(after[j])]
<1>1. /\ after \in Seq(SliceType) /\ Len(after) = Len(pool) + 1
      /\ DOMAIN after = S \cup {x} /\ x \notin S
      /\ \A j \in S : after[j] = pool[j]
      /\ after[x] = NewSlice
  <2>1. NewSlice \in SliceType
    BY NewSliceFacts
  <2> QED BY <2>1
<1>2. IsFiniteSet(S) /\ \A j \in S : pool[j] \in SliceType
  BY SlicesFinite
<1>3. /\ DeployedIn(pool) = SumFunctionOnSet(d, S)
      /\ DepositedIn(pool) = SumFunctionOnSet(p, S)
      /\ EntitledIn(pool) = SumFunctionOnSet(e, S)
  BY LedgerTotals
<1> HIDE DEF after
<1>4. /\ DeployedIn(after) = SumFunctionOnSet(d2, S \cup {x})
      /\ DepositedIn(after) = SumFunctionOnSet(p2, S \cup {x})
      /\ EntitledIn(after) = SumFunctionOnSet(e2, S \cup {x})
  BY <1>1, LedgerTotals
<1>5. \A j \in S : /\ d[j] = pool[j].principalDeployed /\ d2[j] = d[j]
                   /\ p[j] = Deposited(pool[j]) /\ p2[j] = p[j]
                   /\ e[j] = SliceEntitlement(pool[j]) /\ e2[j] = e[j]
  BY <1>1
<1>6. d2[x] = 0 /\ p2[x] = 0 /\ e2[x] = 0
  BY <1>1, NewSliceFacts
<1> HIDE DEF d, p, e, d2, p2, e2
<1>7. \A j \in S : d[j] \in Int /\ p[j] \in Int /\ e[j] \in Int
  BY <1>2, <1>5, SliceFacts
<1> HIDE DEF S, x
<1>8. SumFunctionOnSet(d2, S \cup {x}) = SumFunctionOnSet(d, S) + d2[x]
  BY <1>1, <1>2, <1>5, <1>6, <1>7, SumAdd
<1>9. SumFunctionOnSet(p2, S \cup {x}) = SumFunctionOnSet(p, S) + p2[x]
  BY <1>1, <1>2, <1>5, <1>6, <1>7, SumAdd
<1>10. SumFunctionOnSet(e2, S \cup {x}) = SumFunctionOnSet(e, S) + e2[x]
  BY <1>1, <1>2, <1>5, <1>6, <1>7, SumAdd
<1>11. /\ SumFunctionOnSet(d, S) \in Int /\ SumFunctionOnSet(p, S) \in Int
       /\ SumFunctionOnSet(e, S) \in Int
  BY <1>2, <1>7, SumType
<1>12. /\ DeployedIn(after) = DeployedIn(pool) /\ DepositedIn(after) = DepositedIn(pool)
       /\ EntitledIn(after) = EntitledIn(pool)
  BY <1>3, <1>4, <1>6, <1>8, <1>9, <1>10, <1>11
<1> QED BY <1>1, <1>12 DEF after, S, x

-----------------------------------------------------------------------------
(* One slice.                                                              *)

LEMMA KindFacts ==
    ASSUME NEW slice \in SliceType, NEW kind \in Kinds
    PROVE  /\ slice[kind] \in TrancheType
           /\ slice[kind].principalSharePrice \in Nat
           /\ slice[kind].interestSharePrice \in Nat
           /\ slice[kind].principalDeposited \in Nat
           /\ slice[kind].lockedUntil \in Nat
<1>1. slice[kind] \in TrancheType
  BY DEF SliceType, Kinds
<1> QED BY <1>1 DEF TrancheType

\* A slice that nothing was drawn from or paid to is worth what was deposited.
LEMMA AtParFacts ==
    ASSUME NEW slice \in SliceType, AtPar(slice)
    PROVE  SliceEntitlement(slice) = Deposited(slice)
<1>1. /\ slice.senior.principalSharePrice = FP_SCALING_FACTOR
      /\ slice.senior.interestSharePrice = 0
  BY DEF AtPar, Kinds
<1>2. /\ slice.junior.principalSharePrice = FP_SCALING_FACTOR
      /\ slice.junior.interestSharePrice = 0
  BY DEF AtPar, Kinds
<1>3. slice.senior.principalDeposited \in Nat /\ slice.junior.principalDeposited \in Nat
  BY SliceFacts
<1>4. Entitlement(slice.senior) = slice.senior.principalDeposited
  BY <1>1, <1>3, ParFacts DEF Entitlement
<1>5. Entitlement(slice.junior) = slice.junior.principalDeposited
  BY <1>2, <1>3, ParFacts DEF Entitlement
<1> QED BY <1>4, <1>5 DEF SliceEntitlement, Deposited

WithDeposit(slice, kind, n) == [slice EXCEPT ![kind].principalDeposited = n]

\* Nothing of a slice at par changes but what is deposited in one of its tranches.
DepositSet(before, after, kind, n) ==
    /\ after \in SliceType /\ AtPar(after)
    /\ after[kind].principalDeposited = n
    /\ \A k \in Kinds : /\ after[k].lockedUntil = before[k].lockedUntil
                        /\ k # kind => after[k] = before[k]
    /\ after.senior.lockedUntil = before.senior.lockedUntil
    /\ Deposited(after) = Deposited(before) - before[kind].principalDeposited + n

LEMMA DepositChanged ==
    ASSUME NEW slice \in SliceType, AtPar(slice), NEW kind \in Kinds, NEW n \in Nat
    PROVE  DepositSet(slice, WithDeposit(slice, kind, n), kind, n)
<1> DEFINE after == WithDeposit(slice, kind, n)
           tranche == [slice[kind] EXCEPT !.principalDeposited = n]
<1>1. slice[kind] \in TrancheType
  BY KindFacts
<1>2. /\ tranche \in TrancheType
      /\ tranche.principalDeposited = n /\ tranche.lockedUntil = slice[kind].lockedUntil
      /\ tranche.principalSharePrice = slice[kind].principalSharePrice
      /\ tranche.interestSharePrice = slice[kind].interestSharePrice
  BY <1>1 DEF TrancheType
<1>3. after = [slice EXCEPT ![kind] = tranche]
  BY DEF WithDeposit
<1> HIDE DEF after, tranche
<1>4. /\ after \in SliceType
      /\ after[kind] = tranche /\ after.principalDeployed = slice.principalDeployed
      /\ \A k \in Kinds : k # kind => after[k] = slice[k]
  <2>1. CASE kind = "senior"
    BY <1>2, <1>3, <2>1 DEF SliceType, Kinds
  <2>2. CASE kind = "junior"
    BY <1>2, <1>3, <2>2 DEF SliceType, Kinds
  <2> QED BY <2>1, <2>2 DEF Kinds
<1>5. AtPar(after)
  BY <1>2, <1>4 DEF AtPar
<1>6. \A k \in Kinds : after[k].lockedUntil = slice[k].lockedUntil
  BY <1>2, <1>4
<1>7. after.senior.lockedUntil = slice.senior.lockedUntil
  BY <1>6 DEF Kinds
<1>8. Deposited(after) = Deposited(slice) - slice[kind].principalDeposited + n
  <2>1. slice.senior.principalDeposited \in Nat /\ slice.junior.principalDeposited \in Nat
    BY SliceFacts
  <2>2. CASE kind = "senior"
    <3>1. after.senior.principalDeposited = n /\ after.junior = slice.junior
      BY <1>2, <1>4, <2>2 DEF Kinds
    <3> QED BY <2>1, <2>2, <3>1 DEF Deposited
  <2>3. CASE kind = "junior"
    <3>1. after.junior.principalDeposited = n /\ after.senior = slice.senior
      BY <1>2, <1>4, <2>3 DEF Kinds
    <3> QED BY <2>1, <2>3, <3>1 DEF Deposited
  <2> QED BY <2>2, <2>3 DEF Kinds
<1>9. after[kind].principalDeposited = n
  BY <1>2, <1>4
<1> QED BY <1>4, <1>5, <1>6, <1>7, <1>8, <1>9 DEF after, DepositSet

\* Nothing but the lock times of a slice changes.
OnlyLocked(before, after) ==
    /\ after \in SliceType
    /\ after.principalDeployed = before.principalDeployed
    /\ Deposited(after) = Deposited(before)
    /\ SliceEntitlement(after) = SliceEntitlement(before)
    /\ \A kind \in Kinds :
          /\ after[kind].principalDeposited = before[kind].principalDeposited
          /\ after[kind].principalSharePrice = before[kind].principalSharePrice
          /\ after[kind].interestSharePrice = before[kind].interestSharePrice
    /\ after.junior.lockedUntil > 0

WithLocks(slice, senior, junior) ==
    [slice EXCEPT !.junior = [@ EXCEPT !.lockedUntil = junior],
                  !.senior = [@ EXCEPT !.lockedUntil = senior]]

LEMMA LockFacts ==
    ASSUME NEW slice \in SliceType, NEW senior \in Nat, NEW junior \in Nat \ {0}
    PROVE  /\ OnlyLocked(slice, WithLocks(slice, senior, junior))
           /\ WithLocks(slice, senior, junior).senior.lockedUntil = senior
<1> DEFINE s == [slice.senior EXCEPT !.lockedUntil = senior]
           j == [slice.junior EXCEPT !.lockedUntil = junior]
           after == [slice EXCEPT !.junior = j, !.senior = s]
<1>1. slice.senior \in TrancheType /\ slice.junior \in TrancheType
  BY SliceFacts
<1>2. /\ s \in TrancheType /\ s.lockedUntil = senior
      /\ s.principalDeposited = slice.senior.principalDeposited
      /\ s.principalSharePrice = slice.senior.principalSharePrice
      /\ s.interestSharePrice = slice.senior.interestSharePrice
  BY <1>1 DEF TrancheType
<1>3. /\ j \in TrancheType /\ j.lockedUntil = junior
      /\ j.principalDeposited = slice.junior.principalDeposited
      /\ j.principalSharePrice = slice.junior.principalSharePrice
      /\ j.interestSharePrice = slice.junior.interestSharePrice
  BY <1>1 DEF TrancheType
<1> HIDE DEF s, j
<1>4. /\ after \in SliceType /\ after.senior = s /\ after.junior = j
      /\ after.principalDeployed = slice.principalDeployed
  BY <1>2, <1>3 DEF SliceType
<1>5. Deposited(after) = Deposited(slice)
  BY <1>2, <1>3, <1>4 DEF Deposited
<1>6. SliceEntitlement(after) = SliceEntitlement(slice)
  BY <1>2, <1>3, <1>4 DEF SliceEntitlement, Entitlement
<1> HIDE DEF after
<1>7. \A kind \in Kinds :
          /\ after[kind].principalDeposited = slice[kind].principalDeposited
          /\ after[kind].principalSharePrice = slice[kind].principalSharePrice
          /\ after[kind].interestSharePrice = slice[kind].interestSharePrice
  BY <1>2, <1>3, <1>4 DEF Kinds
<1>8. OnlyLocked(slice, after) /\ after.senior.lockedUntil = senior
  BY <1>2, <1>3, <1>4, <1>5, <1>6, <1>7 DEF OnlyLocked
<1> QED BY <1>8 DEF after, s, j, WithLocks

-----------------------------------------------------------------------------
(* The principal of the live tokens of a tranche.                          *)

LEMMA PrincipalInSame ==
    ASSUME NEW live, NEW after, IsFiniteSet(DOMAIN live), DOMAIN after = DOMAIN live,
           \A id \in DOMAIN live : /\ live[id].principalAmount \in Nat
                                   /\ after[id].tranche = live[id].tranche
                                   /\ after[id].principalAmount = live[id].principalAmount,
           NEW tranche
    PROVE  PrincipalIn(after, tranche) = PrincipalIn(live, tranche)
<1> DEFINE S == {id \in DOMAIN live : live[id].tranche = tranche}
           f == [id \in DOMAIN live |-> live[id].principalAmount]
           h == [id \in DOMAIN live |-> after[id].principalAmount]
<1>1. IsFiniteSet(S)
  BY FS_Subset
<1>2. \A id \in S : f[id] \in Int /\ h[id] = f[id]
  OBVIOUS
<1>3. {id \in DOMAIN after : after[id].tranche = tranche} = S
  OBVIOUS
<1> HIDE DEF S, f, h
<1>4. SumFunctionOnSet(h, S) = SumFunctionOnSet(f, S)
  BY <1>1, <1>2, SumSame
<1>5. PrincipalIn(after, tranche) = SumFunctionOnSet(h, S)
  BY <1>3 DEF PrincipalIn, h
<1>6. PrincipalIn(live, tranche) = SumFunctionOnSet(f, S)
  BY DEF PrincipalIn, f, S
<1> QED BY <1>4, <1>5, <1>6

LEMMA PrincipalInFacts ==
    ASSUME NEW live, IsFiniteSet(DOMAIN live),
           \A id \in DOMAIN live : live[id].principalAmount \in Nat, NEW tranche
    PROVE  /\ PrincipalIn(live, tranche) \in Nat
           /\ \A id \in DOMAIN live : live[id].tranche = tranche
                => live[id].principalAmount <= PrincipalIn(live, tranche)
<1> DEFINE S == {id \in DOMAIN live : live[id].tranche = tranche}
           f == [id \in DOMAIN live |-> live[id].principalAmount]
<1>1. IsFiniteSet(S)
  BY FS_Subset
<1>2. \A id \in S : f[id] \in Nat /\ f[id] = live[id].principalAmount
  OBVIOUS
<1> HIDE DEF f
<1>3. /\ SumFunctionOnSet(f, S) \in Nat
      /\ \A id \in S : f[id] <= SumFunctionOnSet(f, S)
  <2> HIDE DEF S
  <2> QED BY <1>1, <1>2, SumOfNaturals
<1>4. PrincipalIn(live, tranche) = SumFunctionOnSet(f, S)
  BY DEF PrincipalIn, f
<1> QED BY <1>2, <1>3, <1>4

\* A token that is minted adds its amount to its own tranche.
LEMMA PrincipalInMinted ==
    ASSUME NEW live, IsFiniteSet(DOMAIN live),
           \A id \in DOMAIN live : live[id].principalAmount \in Nat,
           NEW new, new \notin DOMAIN live, NEW minted, NEW amount \in Nat, NEW tranche
    PROVE  LET after == [id \in DOMAIN live \cup {new} |->
                            IF id = new THEN TokenInfo(minted, amount) ELSE live[id]]
           IN  PrincipalIn(after, tranche) = PrincipalIn(live, tranche)
                    + (IF minted = tranche THEN amount ELSE 0)
<1> DEFINE T == DOMAIN live \cup {new}
           after == [id \in T |->
                            IF id = new THEN TokenInfo(minted, amount) ELSE live[id]]
           S == {id \in DOMAIN live : live[id].tranche = tranche}
           S2 == {id \in DOMAIN after : after[id].tranche = tranche}
           f == [id \in DOMAIN live |-> live[id].principalAmount]
           h == [id \in DOMAIN after |-> after[id].principalAmount]
<1>1. IsFiniteSet(S) /\ new \notin S
  BY FS_Subset
<1>2. /\ after[new].tranche = minted /\ after[new].principalAmount = amount
      /\ DOMAIN after = T
      /\ \A id \in DOMAIN live : after[id] = live[id]
  BY DEF TokenInfo
<1> HIDE DEF after
<1>3. /\ \A id \in S : f[id] \in Int /\ h[id] = f[id]
      /\ h[new] = amount /\ h[new] \in Int
  BY <1>2
<1>4. S2 = IF minted = tranche THEN S \cup {new} ELSE S
  BY <1>2
<1>5. /\ PrincipalIn(after, tranche) = SumFunctionOnSet(h, S2)
      /\ PrincipalIn(live, tranche) = SumFunctionOnSet(f, S)
  BY DEF PrincipalIn
<1> HIDE DEF S, S2, f, h
<1>6. SumFunctionOnSet(f, S) \in Int
  BY <1>1, <1>3, SumType
<1>7. CASE minted = tranche
  <2>1. SumFunctionOnSet(h, S \cup {new}) = SumFunctionOnSet(f, S) + h[new]
    BY <1>1, <1>3, SumAdd
  <2> QED BY <1>3, <1>4, <1>5, <1>7, <2>1 DEF after
<1>8. CASE minted # tranche
  <2>1. SumFunctionOnSet(h, S) = SumFunctionOnSet(f, S)
    BY <1>1, <1>3, SumSame
  <2> QED BY <1>4, <1>5, <1>6, <1>8, <2>1 DEF after
<1> QED BY <1>7, <1>8

\* A deposit that is taken back is taken from its token's tranche.
TakenBack(live, after, id, amount) ==
    /\ DOMAIN after = DOMAIN live
    /\ \A x \in DOMAIN live :
          /\ live[x].principalAmount \in Nat
          /\ after[x].tranche = live[x].tranche
          /\ after[x].principalAmount =
                IF x = id THEN live[x].principalAmount - amount ELSE live[x].principalAmount

LEMMA PrincipalInWithdrawn ==
    ASSUME NEW live, NEW after, NEW id \in DOMAIN live, NEW amount \in Nat, NEW tranche,
           IsFiniteSet(DOMAIN live), TakenBack(live, after, id, amount)
    PROVE  PrincipalIn(after, tranche) = PrincipalIn(live, tranche)
                    - (IF live[id].tranche = tranche THEN amount ELSE 0)
<1>0. /\ DOMAIN after = DOMAIN live
      /\ \A x \in DOMAIN live :
            /\ live[x].principalAmount \in Nat
            /\ after[x].tranche = live[x].tranche
            /\ after[x].principalAmount =
                  IF x = id THEN live[x].principalAmount - amount ELSE live[x].principalAmount
  BY DEF TakenBack
<1> DEFINE S == {x \in DOMAIN live : live[x].tranche = tranche}
           f == [x \in DOMAIN live |-> live[x].principalAmount]
           h == [x \in DOMAIN live |-> after[x].principalAmount]
<1>1. IsFiniteSet(S)
  BY FS_Subset
<1>2. \A x \in S : f[x] \in Int /\ h[x] \in Int /\ (x # id => h[x] = f[x])
  BY <1>0
<1>3. id \in S => h[id] = f[id] - amount /\ f[id] \in Int
  BY <1>0
<1>4. {x \in DOMAIN after : after[x].tranche = tranche} = S
  BY <1>0
<1>5. id \in S <=> live[id].tranche = tranche
  OBVIOUS
<1> HIDE DEF S, f, h
<1>6. PrincipalIn(after, tranche) = SumFunctionOnSet(h, S)
  BY <1>0, <1>4 DEF PrincipalIn, h
<1>7. PrincipalIn(live, tranche) = SumFunctionOnSet(f, S)
  BY DEF PrincipalIn, f, S
<1>8. SumFunctionOnSet(f, S) \in Int
  BY <1>1, <1>2, SumType
<1>9. CASE id \in S
  <2>1. \A y \in S \ {id} : h[y] = f[y]
    BY <1>2
  <2>2. \A y \in S : f[y] \in Int /\ h[y] \in Int
    BY <1>2
  <2>3. SumFunctionOnSet(h, S) = SumFunctionOnSet(f, S) - f[id] + h[id]
    BY <1>1, <1>9, <2>1, <2>2, SumUpdate
  <2> QED BY <1>3, <1>5, <1>6, <1>7, <1>8, <1>9, <2>3
<1>10. CASE id \notin S
  <2>1. \A x \in S : f[x] \in Int /\ h[x] = f[x]
    BY <1>2, <1>10
  <2>2. SumFunctionOnSet(h, S) = SumFunctionOnSet(f, S)
    BY <1>1, <2>1, SumSame
  <2> QED BY <1>5, <1>6, <1>7, <1>8, <1>10, <2>2
<1> QED BY <1>9, <1>10

LEMMA PrincipalInBurned ==
    ASSUME NEW live, IsFiniteSet(DOMAIN live),
           \A id \in DOMAIN live : live[id].principalAmount \in Nat,
           NEW id \in DOMAIN live, NEW tranche
    PROVE  PrincipalIn(Restrict(live, DOMAIN live \ {id}), tranche)
             <= PrincipalIn(live, tranche)
<1> DEFINE T == DOMAIN live \ {id}
           after == [x \in T |-> live[x]]
           S == {x \in DOMAIN live : live[x].tranche = tranche}
           f == [x \in DOMAIN live |-> live[x].principalAmount]
           h == [x \in T |-> after[x].principalAmount]
<1>1. after = Restrict(live, T)
  BY DEF Restrict
<1>2. IsFiniteSet(S)
  BY FS_Subset
<1>3. \A x \in S : f[x] \in Nat /\ f[x] \in Int
  OBVIOUS
<1>4. {x \in DOMAIN after : after[x].tranche = tranche} = S \ {id}
  OBVIOUS
<1>5. \A x \in S \ {id} : f[x] \in Int /\ h[x] = f[x]
  OBVIOUS
<1>6. DOMAIN after = T
  OBVIOUS
<1> HIDE DEF after, S, f, h
<1>7. PrincipalIn(after, tranche) = SumFunctionOnSet(h, S \ {id})
  BY <1>4, <1>6 DEF PrincipalIn, h
<1>8. PrincipalIn(live, tranche) = SumFunctionOnSet(f, S)
  BY DEF PrincipalIn, f, S
<1>9. IsFiniteSet(S \ {id})
  BY <1>2, FS_Subset
<1>10. SumFunctionOnSet(h, S \ {id}) = SumFunctionOnSet(f, S \ {id})
  BY <1>5, <1>9, SumSame
<1>11. SumFunctionOnSet(f, S) \in Int /\ SumFunctionOnSet(f, S \ {id}) \in Int
  BY <1>2, <1>3, <1>9, SumType
<1>12. CASE id \in S
  <2>1. SumFunctionOnSet(f, S) = f[id] + SumFunctionOnSet(f, S \ {id})
    BY <1>2, <1>3, <1>12, SumRemove
  <2>2. f[id] \in Nat
    BY <1>3, <1>12
  <2>3. SumFunctionOnSet(f, S \ {id}) <= SumFunctionOnSet(f, S)
    BY <1>11, <2>1, <2>2
  <2> QED BY <1>1, <1>7, <1>8, <1>10, <2>3
<1>13. CASE id \notin S
  <2>1. S \ {id} = S
    BY <1>13
  <2> QED BY <1>1, <1>7, <1>8, <1>10, <1>11, <2>1
<1> QED BY <1>12, <1>13

-----------------------------------------------------------------------------
(* A draw.                                                                 *)

LEMMA AvailableFacts ==
    ASSUME NEW slice \in SliceType PROVE AmountAvailable(slice) \in Nat
<1>1. /\ slice.senior.principalSharePrice \in Nat /\ slice.senior.principalDeposited \in Nat
      /\ slice.junior.principalSharePrice \in Nat /\ slice.junior.principalDeposited \in Nat
  BY KindFacts DEF Kinds
<1>2. /\ sharePriceToUsdc(slice.senior.principalSharePrice,
                          slice.senior.principalDeposited) \in Nat
      /\ sharePriceToUsdc(slice.junior.principalSharePrice,
                          slice.junior.principalDeposited) \in Nat
  BY <1>1, UsdcFacts
<1> QED BY <1>2 DEF AmountAvailable

\* Two tranches whose prices share an amount are not worth more than that together.
LEMMA SharedAmount ==
    ASSUME NEW p \in Nat, NEW q \in Nat, NEW m \in Nat, NEW n \in Nat, NEW a \in Nat,
           m + n > 0,
           p * (m + n) <= a * FP_SCALING_FACTOR, q * (m + n) <= a * FP_SCALING_FACTOR
    PROVE  sharePriceToUsdc(p, m) + sharePriceToUsdc(q, n) <= a
<1> DEFINE F == FP_SCALING_FACTOR
           x == sharePriceToUsdc(p, m)
           y == sharePriceToUsdc(q, n)
<1>1. F \in Nat \ {0}
  BY Scaling
<1>2. x \in Nat /\ x * F <= p * m
  BY UsdcFacts
<1>3. y \in Nat /\ y * F <= q * n
  BY UsdcFacts
<1> HIDE DEF F, x, y
<1>4. PICK D \in Nat \ {0} : D = m + n
  OBVIOUS
<1>5. (p * D) * m <= (a * F) * m
  <2>1. p * D \in Nat /\ a * F \in Nat /\ p * D <= a * F
    BY <1>1, <1>4 DEF F
  <2> QED BY <2>1, Multiply
<1>6. (q * D) * n <= (a * F) * n
  <2>1. q * D \in Nat /\ a * F \in Nat /\ q * D <= a * F
    BY <1>1, <1>4 DEF F
  <2> QED BY <2>1, Multiply
<1>7. (x * F) * D <= (p * m) * D
  <2>1. x * F \in Nat /\ p * m \in Nat
    BY <1>1, <1>2
  <2> QED BY <1>2, <2>1, Multiply
<1>8. (y * F) * D <= (q * n) * D
  <2>1. y * F \in Nat /\ q * n \in Nat
    BY <1>1, <1>3
  <2> QED BY <1>3, <2>1, Multiply
<1>9. (p * m) * D = (p * D) * m /\ (q * n) * D = (q * D) * n
  OBVIOUS
<1>10. (x * F) * D <= (a * F) * m /\ (y * F) * D <= (a * F) * n
  <2>1. PICK u \in Int, v \in Int, w \in Int, z \in Int :
            u = (x * F) * D /\ v = (y * F) * D /\ w = (a * F) * m /\ z = (a * F) * n
    BY <1>1, <1>2, <1>3
  <2>2. PICK r \in Int, s \in Int : r = (p * D) * m /\ s = (q * D) * n
    OBVIOUS
  <2> QED BY <1>5, <1>6, <1>7, <1>8, <1>9, <2>1, <2>2
<1>11. (x + y) * (F * D) = (x * F) * D + (y * F) * D
  BY <1>1, <1>2, <1>3
<1>12. a * (F * D) = (a * F) * m + (a * F) * n
  <2>1. (a * F) * D = (a * F) * m + (a * F) * n
    <3>1. PICK g \in Nat : g = a * F
      BY <1>1
    <3> QED BY <1>4, <3>1
  <2>2. a * (F * D) = (a * F) * D
    BY <1>1
  <2> QED BY <2>1, <2>2
<1>13. (x + y) * (F * D) <= a * (F * D)
  <2>1. PICK u \in Int, v \in Int, w \in Int, z \in Int :
            u = (x * F) * D /\ v = (y * F) * D /\ w = (a * F) * m /\ z = (a * F) * n
    BY <1>1, <1>2, <1>3
  <2> QED BY <1>10, <1>11, <1>12, <2>1
<1>14. PICK k \in Nat \ {0} : k = F * D
  BY <1>1
<1>15. PICK t \in Nat : t = x + y
  BY <1>2, <1>3
<1>16. t * k <= a * k
  BY <1>13, <1>14, <1>15
<1>17. t <= a
  BY <1>16, Cancel
<1> QED BY <1>15, <1>17 DEF x, y

Drawn(before, after, amount) ==
    /\ after \in SliceType
    /\ after.principalDeployed = before.principalDeployed + amount
    /\ Deposited(after) = Deposited(before)
    /\ SliceEntitlement(after) + amount <= SliceEntitlement(before)
    /\ \A kind \in Kinds :
          /\ after[kind].principalDeposited = before[kind].principalDeposited
          /\ after[kind].lockedUntil = before[kind].lockedUntil
          /\ after[kind].principalSharePrice * Deposited(before)
               <= (AmountAvailable(before) - amount) * FP_SCALING_FACTOR

LEMMA DrawFacts ==
    ASSUME NEW slice \in SliceType, NEW amount \in Nat,
           amount <= AmountAvailable(slice), Deposited(slice) > 0
    PROVE  Drawn(slice, DrawFrom(slice, amount), amount)
<1> DEFINE rem == AmountAvailable(slice) - amount
           ps == calculateExpectedSharePrice(slice.senior, rem, slice)
           pj == calculateExpectedSharePrice(slice.junior, rem, slice)
           s == [slice.senior EXCEPT !.principalSharePrice = ps]
           j == [slice.junior EXCEPT !.principalSharePrice = pj]
           after == DrawFrom(slice, amount)
           ns == slice.senior.principalDeposited
           nj == slice.junior.principalDeposited
<1>1. /\ slice.senior \in TrancheType /\ slice.junior \in TrancheType
      /\ ns \in Nat /\ nj \in Nat /\ Deposited(slice) \in Nat
      /\ slice.principalDeployed \in Nat
  BY SliceFacts
<1>2. rem \in Nat
  BY AvailableFacts
<1> HIDE DEF rem
<1>3. ps \in Nat /\ ps * Deposited(slice) <= rem * FP_SCALING_FACTOR
  BY <1>1, <1>2, ExpectedPriceFacts
<1>4. pj \in Nat /\ pj * Deposited(slice) <= rem * FP_SCALING_FACTOR
  BY <1>1, <1>2, ExpectedPriceFacts
<1>5. after = [slice EXCEPT !.junior = j, !.senior = s, !.principalDeployed = @ + amount]
  BY DEF DrawFrom, rem
<1> HIDE DEF ps, pj, after
<1>6. /\ s \in TrancheType /\ s.principalSharePrice = ps
      /\ s.principalDeposited = ns /\ s.lockedUntil = slice.senior.lockedUntil
      /\ s.interestSharePrice = slice.senior.interestSharePrice
  BY <1>1, <1>3 DEF TrancheType
<1>7. /\ j \in TrancheType /\ j.principalSharePrice = pj
      /\ j.principalDeposited = nj /\ j.lockedUntil = slice.junior.lockedUntil
      /\ j.interestSharePrice = slice.junior.interestSharePrice
  BY <1>1, <1>4 DEF TrancheType
<1> HIDE DEF s, j
<1>8. /\ after \in SliceType /\ after.senior = s /\ after.junior = j
      /\ after.principalDeployed = slice.principalDeployed + amount
  <2>1. PICK n \in Nat : n = slice.principalDeployed + amount
    BY <1>1
  <2>2. after = [slice EXCEPT !.junior = j, !.senior = s, !.principalDeployed = n]
    BY <1>5, <2>1
  <2> HIDE DEF ns, nj
  <2>3. [slice EXCEPT !.junior = j, !.senior = s, !.principalDeployed = n] \in SliceType
    BY <1>6, <1>7 DEF SliceType
  <2>4. /\ after.senior = s /\ after.junior = j /\ after.principalDeployed = n
    BY <2>2 DEF SliceType
  <2> QED BY <2>1, <2>2, <2>3, <2>4
<1>9. Deposited(after) = Deposited(slice)
  BY <1>6, <1>7, <1>8 DEF Deposited
<1>10. \A kind \in Kinds :
          /\ after[kind].principalDeposited = slice[kind].principalDeposited
          /\ after[kind].lockedUntil = slice[kind].lockedUntil
          /\ after[kind].principalSharePrice * Deposited(slice) <= rem * FP_SCALING_FACTOR
  <2>1. after["senior"] = s /\ after["junior"] = j
    BY <1>8
  <2> QED BY <1>3, <1>4, <1>6, <1>7, <2>1 DEF Kinds
<1>11. SliceEntitlement(after) + amount <= SliceEntitlement(slice)
  <2> DEFINE is == sharePriceToUsdc(slice.senior.interestSharePrice, ns)
             ij == sharePriceToUsdc(slice.junior.interestSharePrice, nj)
             us == sharePriceToUsdc(slice.senior.principalSharePrice, ns)
             uj == sharePriceToUsdc(slice.junior.principalSharePrice, nj)
             vs == sharePriceToUsdc(ps, ns)
             vj == sharePriceToUsdc(pj, nj)
  <2>1. /\ slice.senior.interestSharePrice \in Nat /\ slice.junior.interestSharePrice \in Nat
        /\ slice.senior.principalSharePrice \in Nat /\ slice.junior.principalSharePrice \in Nat
    BY <1>1 DEF TrancheType
  <2>2. is \in Nat /\ ij \in Nat /\ us \in Nat /\ uj \in Nat /\ vs \in Nat /\ vj \in Nat
    BY <1>1, <1>3, <1>4, <2>1, UsdcFacts
  <2>3. vs + vj <= rem
    BY <1>1, <1>2, <1>3, <1>4, SharedAmount DEF Deposited
  <2>4. SliceEntitlement(slice) = us + is + (uj + ij)
    BY DEF SliceEntitlement, Entitlement
  <2>5. SliceEntitlement(after) = vs + is + (vj + ij)
    BY <1>6, <1>7, <1>8 DEF SliceEntitlement, Entitlement
  <2> HIDE DEF is, ij, us, uj, vs, vj
  <2>6. rem = uj + us - amount
    <3>1. AmountAvailable(slice) = uj + us
      BY DEF AmountAvailable, uj, us, ns, nj
    <3> QED BY <2>2, <3>1 DEF rem
  <2>7. PICK a \in Nat, b \in Nat, c \in Nat : a = vs + vj /\ b = us + uj /\ c = is + ij
    BY <2>2
  <2>8. SliceEntitlement(slice) = b + c /\ SliceEntitlement(after) = a + c
    BY <2>2, <2>4, <2>5, <2>7
  <2>9. a <= b - amount
    BY <2>2, <2>3, <2>6, <2>7
  <2> QED BY <2>7, <2>8, <2>9
<1> QED BY <1>8, <1>9, <1>10, <1>11 DEF Drawn, after, rem

-----------------------------------------------------------------------------
(* A payment.                                                              *)

\* What the credit line reports of a payment it has applied.
LEMMA PaymentFacts ==
    ASSUME ScheduleInv, NEW payment \in Nat, assess(payment)
    PROVE  /\ InterestPayment(payment) \in Nat
           /\ PrincipalPayment(payment) \in 0..balance
           /\ PaymentRemaining(payment) \in Nat
           /\ balance' = balance - PrincipalPayment(payment)
           /\ totalInterestAccrued' - totalInterestAccrued \in Nat
           /\ Collected(payment) = 0 => PrincipalPayment(payment) = 0
           /\ Collected(payment) # 0 =>
                /\ Collected(payment) = payment
                /\ InterestPayment(payment) + PrincipalPayment(payment)
                     + PaymentRemaining(payment) = payment
<1>1. balance \in Nat /\ totalInterestAccrued \in Nat /\ interestOwed \in Nat
  BY DEF ScheduleInv, TypeOK
<1>2. CASE TooEarly
  <2>1. /\ InterestPayment(payment) = 0 /\ PrincipalPayment(payment) = 0
        /\ PaymentRemaining(payment) = 0
    BY <1>2 DEF InterestPayment, PrincipalPayment, PaymentRemaining
  <2>2. balance' = balance /\ totalInterestAccrued' = totalInterestAccrued
    BY <1>2 DEF assess, accounting
  <2>3. Collected(payment) = 0
    BY <2>1 DEF Collected
  <2> QED BY <1>1, <2>1, <2>2, <2>3
<1>3. CASE ~TooEarly
  <2>1. balance > 0 /\ CanAssess(payment) /\ handlePayment(payment)
    BY <1>3 DEF assess
  <2>2. /\ NewInterest \in Nat
        /\ InterestPayment(payment) \in 0..(interestOwed + NewInterest)
        /\ PrincipalPayment(payment) \in 0..balance
        /\ InterestPayment(payment) + PrincipalPayment(payment) <= payment
    BY <1>3, <2>1, AssessmentFacts
  <2>3. /\ balance' = balance - PrincipalPayment(payment)
        /\ totalInterestAccrued' = totalInterestAccrued + NewInterest
    BY <2>1 DEF handlePayment, updateCreditLineAccounting
  <2>4. PaymentRemaining(payment) = payment - InterestPayment(payment) - PrincipalPayment(payment)
    BY <1>3 DEF PaymentRemaining
  <2>5. InterestPayment(payment) \in Nat /\ PrincipalPayment(payment) \in Nat
    BY <1>1, <2>2
  <2>6. Collected(payment) = IF InterestPayment(payment) > 0 \/ PrincipalPayment(payment) > 0
                             THEN payment ELSE 0
    BY DEF Collected
  <2>7. PICK i \in Nat, p \in Nat : i = InterestPayment(payment) /\ p = PrincipalPayment(payment)
    BY <2>5
  <2>8. i + p <= payment /\ p <= balance
    BY <2>2, <2>7
  <2>9. /\ PaymentRemaining(payment) = payment - i - p
        /\ Collected(payment) = IF i > 0 \/ p > 0 THEN payment ELSE 0
    BY <2>4, <2>6, <2>7
  <2>10. totalInterestAccrued' - totalInterestAccrued \in Nat
    BY <1>1, <2>2, <2>3
  <2>11. /\ payment - i - p \in Nat /\ i + p + (payment - i - p) = payment
         /\ (IF i > 0 \/ p > 0 THEN payment ELSE 0) = 0 => p = 0
    BY <2>8
  <2> QED BY <2>3, <2>5, <2>7, <2>8, <2>9, <2>10, <2>11
<1> QED BY <1>2, <1>3

\* The slices with the interest that was accrued since the last payment.
Accruing(before, after) ==
    /\ after \in Seq(SliceType)
    /\ DOMAIN after = DOMAIN before /\ Len(after) = Len(before)
    /\ \A i \in DOMAIN before :
          /\ after[i].senior = before[i].senior /\ after[i].junior = before[i].junior
          /\ \A kind \in Kinds : after[i][kind] = before[i][kind]
          /\ after[i].principalDeployed = before[i].principalDeployed
          /\ Deposited(after[i]) = Deposited(before[i])
    /\ DeployedIn(after) = DeployedIn(before)
    /\ DepositedIn(after) = DepositedIn(before)
    /\ EntitledIn(after) = EntitledIn(before)

WithInterest(pool, interest, total) ==
    [i \in DOMAIN pool |->
        [pool[i] EXCEPT !.totalInterestAccrued =
            @ + scaleByFraction(interest, pool[i].principalDeployed, total)]]

\* Nothing of a slice changes but the interest it has accrued.
LEMMA AccruedFacts ==
    ASSUME NEW pool \in Seq(SliceType), NEW total \in Nat \ {0}, NEW interest \in Nat
    PROVE  Accruing(pool, WithInterest(pool, interest, total))
<1> DEFINE part(i) == scaleByFraction(interest, pool[i].principalDeployed, total)
           after == [i \in DOMAIN pool |->
                       [pool[i] EXCEPT !.totalInterestAccrued = @ + part(i)]]
<1>1. \A i \in DOMAIN pool : pool[i] \in SliceType
  BY SlicesFinite
<1>2. \A i \in DOMAIN pool :
         /\ after[i] \in SliceType
         /\ after[i].senior = pool[i].senior /\ after[i].junior = pool[i].junior
         /\ after[i].principalDeployed = pool[i].principalDeployed
  <2> SUFFICES ASSUME NEW i \in DOMAIN pool
      PROVE  /\ after[i] \in SliceType
             /\ after[i].senior = pool[i].senior /\ after[i].junior = pool[i].junior
             /\ after[i].principalDeployed = pool[i].principalDeployed
    OBVIOUS
  <2>1. pool[i] \in SliceType /\ pool[i].principalDeployed \in Nat
    BY <1>1, SliceFacts
  <2>2. part(i) \in Nat
    BY <2>1, ScaleFacts
  <2>3. after[i] = [pool[i] EXCEPT !.totalInterestAccrued = @ + part(i)]
    OBVIOUS
  <2> HIDE DEF part, after
  <2> QED BY <2>1, <2>2, <2>3 DEF SliceType
<1>3. DOMAIN after = DOMAIN pool
  OBVIOUS
<1> HIDE DEF after
<1>4. after \in Seq(SliceType) /\ Len(after) = Len(pool)
  <2>1. DOMAIN after = 1..Len(pool) /\ Len(pool) \in Nat
    BY <1>3, SlicesFinite
  <2>2. after \in [1..Len(pool) -> SliceType]
    BY <1>2, <1>3, <2>1 DEF after
  <2> QED BY <2>1, <2>2
<1>5. \A i \in DOMAIN pool :
         /\ \A kind \in Kinds : after[i][kind] = pool[i][kind]
         /\ Deposited(after[i]) = Deposited(pool[i])
         /\ SliceEntitlement(after[i]) = SliceEntitlement(pool[i])
  BY <1>2 DEF Kinds, Deposited, SliceEntitlement
<1>6. /\ DeployedIn(after) = DeployedIn(pool)
      /\ DepositedIn(after) = DepositedIn(pool)
      /\ EntitledIn(after) = EntitledIn(pool)
  <2>1. /\ [i \in DOMAIN after |-> after[i].principalDeployed]
             = [i \in DOMAIN pool |-> pool[i].principalDeployed]
        /\ [i \in DOMAIN after |-> Deposited(after[i])]
             = [i \in DOMAIN pool |-> Deposited(pool[i])]
        /\ [i \in DOMAIN after |-> SliceEntitlement(after[i])]
             = [i \in DOMAIN pool |-> SliceEntitlement(pool[i])]
    BY <1>2, <1>3, <1>5
  <2> QED BY <1>3, <2>1, LedgerTotals
<1>7. Accruing(pool, after)
  BY <1>2, <1>3, <1>4, <1>5, <1>6 DEF Accruing
<1> QED BY <1>7 DEF after, WithInterest

\* A slice after a payment: its prices as Paid says, and less the part repaid.
Repaid(before, after, accrued, part) ==
    /\ after \in SliceType
    /\ after.principalDeployed = before.principalDeployed - part
    /\ Deposited(after) = Deposited(before)
    /\ \A kind \in Kinds :
          /\ after[kind].principalDeposited = before[kind].principalDeposited
          /\ after[kind].lockedUntil = before[kind].lockedUntil
          /\ \/ after[kind].principalSharePrice <= before[kind].principalSharePrice
             \/ after[kind].principalSharePrice * Deposited(before)
                  <= accrued * FP_SCALING_FACTOR

LEMMA RepaidSlice ==
    ASSUME NEW slice \in SliceType, NEW paid, NEW accrued, NEW part \in Nat,
           Paid(slice, paid, accrued), part <= slice.principalDeployed
    PROVE  LET after == [paid EXCEPT !.principalDeployed = @ - part]
           IN  Repaid(slice, after, accrued, part)
<1> DEFINE after == [paid EXCEPT !.principalDeployed = @ - part]
<1>1. /\ paid \in SliceType /\ paid.principalDeployed = slice.principalDeployed
      /\ slice.principalDeployed \in Nat
  BY SliceFacts DEF Paid
<1>2. PICK n \in Nat : n = slice.principalDeployed - part
  BY <1>1
<1>3. after = [paid EXCEPT !.principalDeployed = n]
  BY <1>1, <1>2
<1> HIDE DEF after
<1>4. /\ after \in SliceType /\ after.principalDeployed = n
      /\ after.senior = paid.senior /\ after.junior = paid.junior
  BY <1>1, <1>3 DEF SliceType
<1>5. \A kind \in Kinds : after[kind] = paid[kind]
  BY <1>4 DEF Kinds
<1>6. \A kind \in Kinds : paid[kind].principalDeposited = slice[kind].principalDeposited
  BY DEF Paid
<1>7. Deposited(after) = Deposited(slice)
  BY <1>4, <1>6 DEF Deposited, Kinds
<1>8. Repaid(slice, after, accrued, part)
  BY <1>2, <1>4, <1>5, <1>7 DEF Repaid, Paid
<1> QED BY <1>8 DEF after

\* What a payment does to all slices together.
Applied(pool, interest, principal, rest, total, left, owed) ==
    LET S == DOMAIN pool
        part(i) == scaleByFraction(principal, pool[i].principalDeployed, total)
        parts == SumFunctionOnSet([i \in S |-> part(i)], S)
        r == applyToAllSlices(pool, interest, principal + rest, total, left, owed)
        after == [i \in S |-> [r.slices[i] EXCEPT !.principalDeployed = @ - part(i)]]
    IN  /\ after \in Seq(SliceType) /\ DOMAIN after = S /\ Len(after) = Len(pool)
        /\ \A i \in S : part(i) \in Nat
        /\ \A i \in S : Repaid(pool[i], after[i],
               SlicePrincipalAccrued(pool[i], total - left + owed, total), part(i))
        /\ parts \in 0..principal
        /\ Len(pool) = 1 => parts = principal
        /\ DeployedIn(after) = total - parts
        /\ DepositedIn(after) = DepositedIn(pool)
        /\ r.reserve \in 0..(interest + principal + rest)
        /\ EntitledIn(after) + r.reserve <= EntitledIn(pool) + interest + principal + rest

LEMMA RepaidFacts ==
    ASSUME NEW pool \in Seq(SliceType), NEW interest \in Nat, NEW principal \in Nat,
           NEW rest \in Nat, NEW total \in Nat, NEW left \in Nat, NEW owed \in Nat,
           CanApply(pool, total, left), DeployedIn(pool) = total,
           \A i \in DOMAIN pool :
              scaleByFraction(principal, pool[i].principalDeployed, total)
                <= pool[i].principalDeployed
    PROVE  Applied(pool, interest, principal, rest, total, left, owed)
<1> DEFINE S == DOMAIN pool
           part(i) == scaleByFraction(principal, pool[i].principalDeployed, total)
           partOf == [i \in S |-> part(i)]
           accrued(i) == SlicePrincipalAccrued(pool[i], total - left + owed, total)
           r == applyToAllSlices(pool, interest, principal + rest, total, left, owed)
           after == [i \in S |-> [r.slices[i] EXCEPT !.principalDeployed = @ - part(i)]]
           deployed == [i \in S |-> pool[i].principalDeployed]
<1>1. /\ IsFiniteSet(S) /\ S = 1..Len(pool) /\ Len(pool) \in Nat
      /\ \A i \in S : pool[i] \in SliceType
  BY SlicesFinite
<1>2. total \in Nat \ {0}
  BY DEF CanApply
<1>3. /\ \A i \in S : deployed[i] = pool[i].principalDeployed /\ deployed[i] \in Nat
      /\ SumFunctionOnSet(deployed, S) = total /\ deployed \in [S -> Nat]
  <2>1. \A i \in S : pool[i].principalDeployed \in Nat
    BY <1>1, SliceFacts
  <2>2. SumFunctionOnSet(deployed, S) = total
    BY LedgerTotals
  <2> QED BY <2>1, <2>2
<1>4. PICK given \in Nat : given = principal + rest
  OBVIOUS
<1>5. /\ \A i \in S : Paid(pool[i], r.slices[i], accrued(i))
      /\ r.reserve \in 0..(interest + given)
      /\ SumFunctionOnSet([i \in S |-> SliceEntitlement(r.slices[i])], S) + r.reserve
           <= SumFunctionOnSet([i \in S |-> SliceEntitlement(pool[i])], S)
                + interest + given
  <2>1. SumOfSlices(pool, LAMBDA i : pool[i].principalDeployed) = total
    BY DEF DeployedIn
  <2>2. r = applyToAllSlices(pool, interest, given, total, left, owed)
    BY <1>4
  <2> HIDE DEF r
  <2>3. \A i \in S : Paid(pool[i], r.slices[i], accrued(i))
    BY <2>1, <2>2, ApplyToAllSlicesFacts
  <2>4. r.reserve \in 0..(interest + given)
    BY <2>1, <2>2, ApplyToAllSlicesFacts
  <2>5. SumFunctionOnSet([i \in S |-> SliceEntitlement(r.slices[i])], S) + r.reserve
           <= SumFunctionOnSet([i \in S |-> SliceEntitlement(pool[i])], S)
                + interest + given
    BY <2>1, <2>2, ApplyToAllSlicesFacts
  <2> QED BY <2>3, <2>4, <2>5
<1> HIDE DEF r, accrued
\* The parts of the repaid principal.
<1>6. \A i \in S : part(i) \in Nat /\ part(i) <= pool[i].principalDeployed
  <2> SUFFICES ASSUME NEW i \in S
               PROVE  part(i) \in Nat /\ part(i) <= pool[i].principalDeployed
    OBVIOUS
  <2>1. pool[i].principalDeployed \in Nat
    BY <1>3
  <2>2. part(i) \in Nat
    BY <1>2, <2>1, ScaleFacts
  <2> QED BY <2>2
<1>7. /\ SumFunctionOnSet(partOf, S) \in 0..principal
      /\ Len(pool) = 1 => SumFunctionOnSet(partOf, S) = principal
  <2>1. \A i \in S : partOf[i] = scaleByFraction(principal, deployed[i], total)
    OBVIOUS
  <2>2. \A i \in S : partOf[i] \in Nat
    BY <1>6
  <2> HIDE DEF partOf, deployed
  <2>3. /\ SumFunctionOnSet(partOf, S) \in Nat
        /\ SumFunctionOnSet(partOf, S) <= principal
    <3> HIDE DEF S
    <3> QED BY <1>1, <1>2, <1>3, <2>1, PartsFacts
  <2>4. ASSUME Len(pool) = 1 PROVE SumFunctionOnSet(partOf, S) = principal
    <3>1. S = {1} /\ S \ {1} = {} /\ 1 \in S
      BY <1>1, <2>4
    <3>2. \A i \in S : partOf[i] \in Int /\ deployed[i] \in Int
      BY <1>3, <2>2
    <3>3. SumFunctionOnSet(partOf, S) = partOf[1] + SumFunctionOnSet(partOf, S \ {1})
      BY <1>1, <3>1, <3>2, SumRemove
    <3>4. SumFunctionOnSet(deployed, S) = deployed[1] + SumFunctionOnSet(deployed, S \ {1})
      BY <1>1, <3>1, <3>2, SumRemove
    <3>5. deployed[1] = total /\ SumFunctionOnSet(partOf, S) = partOf[1]
      <4>1. /\ SumFunctionOnSet(partOf, S \ {1}) = 0
            /\ SumFunctionOnSet(deployed, S \ {1}) = 0
        BY <3>1, SumOfNone
      <4>2. deployed[1] \in Int /\ partOf[1] \in Int
        BY <3>1, <3>2
      <4> QED BY <1>3, <3>3, <3>4, <4>1, <4>2
    <3>6. scaleByFraction(principal, total, total) = principal
      BY <1>2, ScaleFacts
    <3> QED BY <2>1, <3>1, <3>5, <3>6
  <2> QED BY <2>3, <2>4
\* Each slice.
<1>8. \A i \in S : /\ Repaid(pool[i], after[i], accrued(i), part(i))
                   /\ Deposited(after[i]) = Deposited(pool[i])
                   /\ SliceEntitlement(after[i]) = SliceEntitlement(r.slices[i])
  <2> SUFFICES ASSUME NEW i \in S
      PROVE  /\ Repaid(pool[i], after[i], accrued(i), part(i))
             /\ Deposited(after[i]) = Deposited(pool[i])
             /\ SliceEntitlement(after[i]) = SliceEntitlement(r.slices[i])
    OBVIOUS
  <2>1. pool[i] \in SliceType /\ Paid(pool[i], r.slices[i], accrued(i))
    BY <1>1, <1>5
  <2>2. part(i) \in Nat /\ part(i) <= pool[i].principalDeployed
    BY <1>6
  <2> DEFINE paid == r.slices[i]
             share == part(i)
             returned == accrued(i)
  <2>3. after[i] = [paid EXCEPT !.principalDeployed = @ - share]
    OBVIOUS
  <2>4. Paid(pool[i], paid, returned) /\ share \in Nat /\ share <= pool[i].principalDeployed
    BY <2>1, <2>2
  <2> HIDE DEF part, after, paid, share, returned
  <2>5. Repaid(pool[i], after[i], returned, share)
    BY <2>1, <2>3, <2>4, RepaidSlice
  <2>6. Deposited(after[i]) = Deposited(pool[i])
    BY <2>5 DEF Repaid
  <2>7. SliceEntitlement(after[i]) = SliceEntitlement(paid)
    <3>1. paid \in SliceType
      BY <2>4 DEF Paid
    <3>2. after[i].senior = paid.senior /\ after[i].junior = paid.junior
      BY <2>3, <3>1 DEF SliceType
    <3> QED BY <3>2 DEF SliceEntitlement
  <2> QED BY <2>5, <2>6, <2>7 DEF paid, share, returned
<1>9. DOMAIN after = S
  OBVIOUS
<1>10. after \in Seq(SliceType) /\ Len(after) = Len(pool)
  <2>1. \A i \in S : after[i] \in SliceType
    BY <1>8 DEF Repaid
  <2>2. after \in [1..Len(pool) -> SliceType]
    <3>1. after = [i \in S |-> after[i]]
      OBVIOUS
    <3> HIDE DEF after
    <3> QED BY <1>1, <1>9, <2>1, <3>1
  <2> HIDE DEF after
  <2> QED BY <1>1, <2>2
<1>11. DeployedIn(after) = total - SumFunctionOnSet(partOf, S)
  <2> DEFINE d2 == [i \in S |-> after[i].principalDeployed]
  <2>1. \A i \in S : /\ d2[i] \in Int /\ partOf[i] \in Int
                     /\ deployed[i] = d2[i] + partOf[i]
    <3> SUFFICES ASSUME NEW i \in S
                 PROVE  /\ d2[i] \in Int /\ partOf[i] \in Int
                        /\ deployed[i] = d2[i] + partOf[i]
      OBVIOUS
    <3>1. Repaid(pool[i], after[i], accrued(i), part(i))
      BY <1>8
    <3>2. after[i].principalDeployed = pool[i].principalDeployed - part(i)
      BY <3>1 DEF Repaid
    <3>3. part(i) \in Nat /\ pool[i].principalDeployed \in Nat
      BY <1>3, <1>6
    <3>4. d2[i] = after[i].principalDeployed /\ partOf[i] = part(i)
      OBVIOUS
    <3>5. deployed[i] = pool[i].principalDeployed
      BY <1>3
    <3> HIDE DEF d2, partOf, part, after, deployed
    <3> QED BY <3>2, <3>3, <3>4, <3>5
  <2>2. DeployedIn(after) = SumFunctionOnSet(d2, S)
    <3> HIDE DEF after
    <3> QED BY <1>9, LedgerTotals
  <2> HIDE DEF d2, partOf, deployed, S, after
  <2>3. SumFunctionOnSet(deployed, S)
          = SumFunctionOnSet(d2, S) + SumFunctionOnSet(partOf, S)
    BY <1>1, <2>1, SumPlus
  <2>4. SumFunctionOnSet(d2, S) \in Int /\ SumFunctionOnSet(partOf, S) \in Int
    BY <1>1, <2>1, SumType
  <2> QED BY <1>3, <2>2, <2>3, <2>4
<1>12. DepositedIn(after) = DepositedIn(pool)
  <2>1. [i \in S |-> Deposited(after[i])] = [i \in S |-> Deposited(pool[i])]
    BY <1>8
  <2> HIDE DEF after
  <2> QED BY <1>9, <2>1, LedgerTotals
<1>13. /\ EntitledIn(after) = SumFunctionOnSet([i \in S |-> SliceEntitlement(r.slices[i])], S)
       /\ EntitledIn(pool) = SumFunctionOnSet([i \in S |-> SliceEntitlement(pool[i])], S)
  <2>1. [i \in S |-> SliceEntitlement(after[i])] = [i \in S |-> SliceEntitlement(r.slices[i])]
    BY <1>8
  <2> HIDE DEF after
  <2> QED BY <1>9, <2>1, LedgerTotals
<1>14. EntitledIn(after) + r.reserve <= EntitledIn(pool) + interest + given
  BY <1>5, <1>13
<1>15. EntitledIn(pool) \in Nat
  BY TotalsAreNatural
<1>16. EntitledIn(pool) + interest + given = EntitledIn(pool) + interest + principal + rest
  BY <1>4, <1>15
<1>17. interest + given = interest + principal + rest
  BY <1>4
<1> HIDE DEF after
<1> QED
  BY <1>5, <1>6, <1>7, <1>8, <1>9, <1>10, <1>11, <1>12, <1>14, <1>16, <1>17
  DEF r, after, accrued, Applied

-----------------------------------------------------------------------------
(* What an action leaves of the invariants.                                *)

\* The body of LockedOnce.
LocksKept ==
    \A i \in DOMAIN slices : isLocked(slices[i]) =>
        \A kind \in Kinds :
            /\ slices'[i][kind].lockedUntil = slices[i][kind].lockedUntil
            /\ slices'[i][kind].principalDeposited = slices[i][kind].principalDeposited

\* A slice that a deposit, a withdrawal or a lock changes is at par before and after.
OnlyParChanged ==
    \A j \in DOMAIN slices' :
        \/ AtPar(slices'[j])
        \/ j \in DOMAIN slices /\ slices'[j] = slices[j]

LEMMA PoolFacts ==
    ASSUME PoolInv
    PROVE  /\ slices \in Seq(SliceType) /\ Len(slices) \in 1..MaxSlices
           /\ Current \in DOMAIN slices /\ Current = Len(slices)
           /\ DOMAIN slices = 1..Len(slices) /\ Len(slices) \in Nat
           /\ \A i \in DOMAIN slices : slices[i] \in SliceType
           /\ totalDeployed \in Nat /\ cash \in Nat /\ redeemed \in Nat /\ swept \in Nat
           /\ totalMinted \in Nat
           /\ EntitledIn(slices) \in Nat /\ DepositedIn(slices) \in Nat
           /\ DeployedIn(slices) \in Nat
<1>1. slices \in Seq(SliceType) /\ Len(slices) \in 1..MaxSlices
  BY DEF PoolInv, PoolTypeOK, LedgerOk
<1>2. /\ EntitledIn(slices) \in Nat /\ DepositedIn(slices) \in Nat
      /\ DeployedIn(slices) \in Nat
  BY <1>1, TotalsAreNatural
<1>3. /\ totalDeployed \in Nat /\ cash \in Nat /\ redeemed \in Nat /\ swept \in Nat
      /\ totalMinted \in Nat
  BY DEF PoolInv, PoolTypeOK, LedgerOk, TokensOk
<1>4. /\ DOMAIN slices = 1..Len(slices) /\ Len(slices) \in Nat
      /\ \A i \in DOMAIN slices : slices[i] \in SliceType
  BY <1>1, SlicesFinite
<1>5. Current \in DOMAIN slices /\ Current = Len(slices)
  BY <1>1, <1>4 DEF Current
<1> QED BY <1>1, <1>2, <1>3, <1>4, <1>5

LEMMA TokenFacts ==
    ASSUME PoolInv
    PROVE  /\ IsFiniteSet(DOMAIN tokens) /\ lastTokenId \in Nat
           /\ DOMAIN tokens \subseteq 1..lastTokenId /\ lastTokenId + 1 \notin DOMAIN tokens
           /\ totalPrincipalRedeemed \in Nat
           /\ \A id \in DOMAIN tokens :
                 /\ tokens[id] \in TokenType
                 /\ tokens[id].principalAmount \in Nat
                 /\ tokens[id].principalRedeemed \in Nat
                 /\ tokens[id].interestRedeemed \in Nat
                 /\ tokens[id].tranche[1] \in DOMAIN slices
                 /\ tokens[id].tranche[2] \in Kinds
                 /\ tokens[id].tranche = <<tokens[id].tranche[1], tokens[id].tranche[2]>>
<1>1. /\ DOMAIN tokens \subseteq 1..lastTokenId /\ lastTokenId \in Nat
      /\ totalPrincipalRedeemed \in Nat
      /\ \A id \in DOMAIN tokens : tokens[id] \in TokenType
  BY DEF PoolInv, PoolTypeOK, TokensOk
<1>2. IsFiniteSet(DOMAIN tokens)
  <2>1. IsFiniteSet(1..lastTokenId)
    BY <1>1, FS_Interval
  <2> QED BY <1>1, <2>1, FS_Subset
<1>3. lastTokenId + 1 \notin DOMAIN tokens
  BY <1>1
<1>4. ASSUME NEW id \in DOMAIN tokens
      PROVE  /\ tokens[id].principalAmount \in Nat
             /\ tokens[id].principalRedeemed \in Nat
             /\ tokens[id].interestRedeemed \in Nat
             /\ tokens[id].tranche[1] \in DOMAIN slices
             /\ tokens[id].tranche[2] \in Kinds
             /\ tokens[id].tranche = <<tokens[id].tranche[1], tokens[id].tranche[2]>>
  <2>1. /\ tokens[id].principalAmount \in Nat
        /\ tokens[id].principalRedeemed \in Nat
        /\ tokens[id].interestRedeemed \in Nat
        /\ tokens[id].tranche \in (DOMAIN slices) \X Kinds
    BY <1>1 DEF TokenType
  <2> QED BY <2>1
<1> QED BY <1>1, <1>2, <1>3, <1>4

\* An open tranche is in an open slice, which is the current one and at par.
LEMMA OpenTranche ==
    ASSUME PoolInv, NEW i \in DOMAIN slices, NEW kind \in Kinds,
           slices[i][kind].lockedUntil = 0
    PROVE  ~isLocked(slices[i]) /\ i = Len(slices) /\ AtPar(slices[i])
<1>1. /\ isLocked(slices[i]) => slices[i].junior.lockedUntil > 0
      /\ ~isLocked(slices[i]) => i = Len(slices) /\ AtPar(slices[i])
  BY DEF PoolInv, InOrder
<1>2. CASE kind = "senior"
  BY <1>1, <1>2 DEF isLocked
<1>3. CASE kind = "junior"
  BY <1>1, <1>3
<1> QED BY <1>1, <1>2, <1>3 DEF Kinds

\* One slice is replaced by another.
LEMMA OneSliceChanged ==
    ASSUME PoolInv, NEW i \in DOMAIN slices, NEW slice \in SliceType,
           slices' = [slices EXCEPT ![i] = slice],
           InOrder(slice, i = Len(slices)),
           isLocked(slices[i]) => \A kind \in Kinds :
              /\ slice[kind].lockedUntil = slices[i][kind].lockedUntil
              /\ slice[kind].principalDeposited = slices[i][kind].principalDeposited
    PROVE  /\ slices' \in Seq(SliceType) /\ Len(slices') = Len(slices)
           /\ DOMAIN slices' = DOMAIN slices
           /\ slices'[i] = slice
           /\ \A j \in DOMAIN slices \ {i} : slices'[j] = slices[j]
           /\ \A j \in DOMAIN slices' : InOrder(slices'[j], j = Len(slices'))
           /\ LocksKept
           /\ DeployedIn(slices') = DeployedIn(slices) - slices[i].principalDeployed
                                      + slice.principalDeployed
           /\ DepositedIn(slices') = DepositedIn(slices) - Deposited(slices[i])
                                       + Deposited(slice)
           /\ EntitledIn(slices') = EntitledIn(slices) - SliceEntitlement(slices[i])
                                      + SliceEntitlement(slice)
<1>1. slices \in Seq(SliceType)
  BY PoolFacts
<1>2. Replaced(slices, slices', i) /\ slices'[i] = slice
  BY <1>1, SliceReplaced
<1>3. /\ slices' \in Seq(SliceType) /\ Len(slices') = Len(slices)
      /\ DOMAIN slices' = DOMAIN slices
      /\ \A j \in DOMAIN slices \ {i} : slices'[j] = slices[j]
      /\ DeployedIn(slices') = DeployedIn(slices) - slices[i].principalDeployed
                                      + slice.principalDeployed
      /\ DepositedIn(slices') = DepositedIn(slices) - Deposited(slices[i])
                                       + Deposited(slice)
      /\ EntitledIn(slices') = EntitledIn(slices) - SliceEntitlement(slices[i])
                                      + SliceEntitlement(slice)
  BY <1>2 DEF Replaced
<1>4. \A j \in DOMAIN slices' : InOrder(slices'[j], j = Len(slices'))
  <2> SUFFICES ASSUME NEW j \in DOMAIN slices
               PROVE  InOrder(slices'[j], j = Len(slices))
    BY <1>3
  <2>1. InOrder(slices[j], j = Len(slices))
    BY DEF PoolInv
  <2>2. CASE j = i
    BY <1>2, <2>2
  <2>3. CASE j # i
    BY <1>3, <2>1, <2>3
  <2> QED BY <2>2, <2>3
<1>5. LocksKept
  BY <1>2, <1>3 DEF LocksKept
<1> QED BY <1>2, <1>3, <1>4, <1>5

-----------------------------------------------------------------------------
(* Depositors.                                                             *)

LEMMA DepositKeeps ==
    ASSUME AccountsInv, NEW kind \in Kinds, NEW amount \in Nat \ {0},
           Deposit(kind, amount)
    PROVE  AccountsInv' /\ LocksKept /\ OnlyParChanged
<1> DEFINE c == Current
           n == slices[c][kind].principalDeposited + amount
           slice == WithDeposit(slices[c], kind, n)
<1>1. PoolInv
  BY DEF AccountsInv
<1>2. /\ c \in DOMAIN slices /\ c = Len(slices) /\ slices[c] \in SliceType
      /\ cash \in Nat /\ totalMinted \in Nat
      /\ DepositedIn(slices) \in Nat /\ EntitledIn(slices) \in Nat
      /\ DeployedIn(slices) \in Nat /\ redeemed \in Nat /\ swept \in Nat
  BY <1>1, PoolFacts
<1>3. slices[c][kind].lockedUntil = 0
  BY DEF Deposit
<1>4. ~isLocked(slices[c]) /\ AtPar(slices[c])
  BY <1>1, <1>2, <1>3, OpenTranche
<1>5. slices[c][kind].principalDeposited \in Nat /\ Deposited(slices[c]) \in Nat
  BY <1>2, KindFacts, SliceFacts
<1>6. n \in Nat
  BY <1>1, <1>5
<1>7. slices' = [slices EXCEPT ![c] = slice]
  BY DEF Deposit, WithDeposit
<1> HIDE DEF c, n, slice
<1>8. /\ slice \in SliceType /\ AtPar(slice)
      /\ slice[kind].principalDeposited = n
      /\ \A k \in Kinds : /\ slice[k].lockedUntil = slices[c][k].lockedUntil
                          /\ k # kind => slice[k] = slices[c][k]
      /\ slice.senior.lockedUntil = slices[c].senior.lockedUntil
      /\ Deposited(slice) = Deposited(slices[c])
                              - slices[c][kind].principalDeposited + n
  <2>1. slices[c] \in SliceType /\ AtPar(slices[c])
    BY <1>2, <1>4
  <2>2. DepositSet(slices[c], slice, kind, n)
    BY <1>6, <2>1, DepositChanged DEF slice
  <2> QED BY <2>2 DEF DepositSet
<1>9. InOrder(slice, c = Len(slices))
  BY <1>2, <1>4, <1>8 DEF InOrder, isLocked
<1>10. /\ slices' \in Seq(SliceType) /\ Len(slices') = Len(slices)
       /\ DOMAIN slices' = DOMAIN slices /\ slices'[c] = slice
       /\ \A j \in DOMAIN slices \ {c} : slices'[j] = slices[j]
       /\ \A j \in DOMAIN slices' : InOrder(slices'[j], j = Len(slices'))
       /\ LocksKept
       /\ DeployedIn(slices') = DeployedIn(slices) - slices[c].principalDeployed
                                      + slice.principalDeployed
       /\ DepositedIn(slices') = DepositedIn(slices) - Deposited(slices[c])
                                       + Deposited(slice)
       /\ EntitledIn(slices') = EntitledIn(slices) - SliceEntitlement(slices[c])
                                      + SliceEntitlement(slice)
  BY <1>1, <1>2, <1>4, <1>7, <1>8, <1>9, OneSliceChanged
<1>11. /\ slices[c].principalDeployed = 0 /\ slice.principalDeployed = 0
       /\ SliceEntitlement(slices[c]) = Deposited(slices[c])
       /\ SliceEntitlement(slice) = Deposited(slice)
  BY <1>2, <1>4, <1>8, AtParFacts DEF AtPar
<1>12. Deposited(slice) = Deposited(slices[c]) + amount
  BY <1>1, <1>5, <1>8 DEF n
<1>13. /\ DeployedIn(slices') = DeployedIn(slices)
       /\ DepositedIn(slices') = DepositedIn(slices) + amount
       /\ EntitledIn(slices') = EntitledIn(slices) + amount
  BY <1>1, <1>2, <1>5, <1>10, <1>11, <1>12
\* The new token.
<1>14. /\ IsFiniteSet(DOMAIN tokens) /\ lastTokenId \in Nat
       /\ DOMAIN tokens \subseteq 1..lastTokenId /\ lastTokenId + 1 \notin DOMAIN tokens
       /\ totalPrincipalRedeemed \in Nat
       /\ \A id \in DOMAIN tokens : tokens[id] \in TokenType
                                    /\ tokens[id].principalAmount \in Nat
  BY <1>1, TokenFacts
<1>15. /\ lastTokenId' = lastTokenId + 1
       /\ tokens' = [id \in DOMAIN tokens \cup {lastTokenId + 1} |->
                        IF id = lastTokenId + 1 THEN TokenInfo(<<c, kind>>, amount)
                        ELSE tokens[id]]
       /\ totalMinted' = totalMinted + amount
       /\ totalPrincipalRedeemed' = totalPrincipalRedeemed
  BY DEF Deposit, mint, c
<1>16. /\ cash' = cash + amount
       /\ UNCHANGED <<balance, maxLimit, totalDeployed, fundableAt, paused, drawdownsPaused,
                      redeemed, swept>>
  BY DEF Deposit, clVars, limits, accounting, switches
<1>17. TokensOk'
  <2>1. TokenInfo(<<c, kind>>, amount) \in TokenType
    BY <1>1, <1>2 DEF TokenInfo, TokenType
  <2>2. DOMAIN tokens' = DOMAIN tokens \cup {lastTokenId + 1}
    BY <1>15
  <2>3. \A id \in DOMAIN tokens' : tokens'[id] \in TokenType
    BY <1>14, <1>15, <2>1
  <2>4. TokenType' = TokenType
    BY <1>10 DEF TokenType
  <2>5. DOMAIN tokens' \subseteq 1..lastTokenId'
    BY <1>14, <1>15, <2>2
  <2>6. lastTokenId' \in Nat /\ totalMinted' \in Nat /\ totalPrincipalRedeemed' \in Nat
    BY <1>1, <1>2, <1>14, <1>15
  <2>7. \A id \in DOMAIN tokens' : tokens'[id] \in TokenType'
    BY <2>3, <2>4
  <2> QED BY <2>5, <2>6, <2>7 DEF TokensOk
<1>18. \A i \in DOMAIN slices', k \in Kinds :
          PrincipalIn(tokens', <<i, k>>) <= slices'[i][k].principalDeposited
  <2> SUFFICES ASSUME NEW i \in DOMAIN slices, NEW k \in Kinds
               PROVE  PrincipalIn(tokens', <<i, k>>) <= slices'[i][k].principalDeposited
    BY <1>10
  <2>1. PrincipalIn(tokens, <<i, k>>) <= slices[i][k].principalDeposited
    BY <1>1 DEF PoolInv
  <2>2. PrincipalIn(tokens', <<i, k>>) = PrincipalIn(tokens, <<i, k>>)
            + (IF <<c, kind>> = <<i, k>> THEN amount ELSE 0)
    <3>1. amount \in Nat /\ \A id \in DOMAIN tokens : tokens[id].principalAmount \in Nat
      BY <1>1, <1>14
    <3> QED BY <1>14, <1>15, <3>1, PrincipalInMinted
  <2>3. PrincipalIn(tokens, <<i, k>>) \in Nat
    BY <1>14, PrincipalInFacts
  <2>4. slices[i] \in SliceType /\ slices[i][k].principalDeposited \in Nat
    BY <1>1, PoolFacts, KindFacts
  <2>5. CASE i = c /\ k = kind
    BY <1>1, <1>5, <1>8, <1>10, <2>1, <2>2, <2>3, <2>5 DEF n
  <2>6. CASE ~(i = c /\ k = kind)
    <3>1. slices'[i][k].principalDeposited = slices[i][k].principalDeposited
      BY <1>8, <1>10, <2>6
    <3> QED BY <2>1, <2>2, <2>3, <2>6, <3>1
  <2> QED BY <2>5, <2>6
<1>19. PoolInv'
  <2>1. /\ SwitchesOk /\ maxLimit \in Limits /\ Len(slices) \in 1..MaxSlices
        /\ totalDeployed \in Nat /\ totalDeployed = DeployedIn(slices)
    BY <1>1 DEF PoolInv, PoolTypeOK, LedgerOk
  <2>2. LedgerOk'
    BY <1>1, <1>2, <1>10, <1>16, <2>1 DEF LedgerOk
  <2>3. SwitchesOk'
    BY <1>16, <2>1 DEF SwitchesOk
  <2>4. totalDeployed' = DeployedIn(slices')
    BY <1>13, <1>16, <2>1
  <2> QED BY <1>10, <1>16, <1>17, <1>18, <2>1, <2>2, <2>3, <2>4 DEF PoolInv, PoolTypeOK
<1>20. DepositsMatchTokens'
  BY <1>2, <1>13, <1>15 DEF AccountsInv, DepositsMatchTokens
<1>21. EntitlementsFunded'
  <2>1. EntitledIn(slices) <= cash + redeemed + swept
    BY DEF AccountsInv, EntitlementsFunded
  <2> QED BY <1>1, <1>2, <1>13, <1>16, <2>1 DEF EntitlementsFunded
<1>22. DeploymentCoversLoan'
  BY <1>10, <1>13, <1>16 DEF AccountsInv, DeploymentCoversLoan
<1>23. OnlyParChanged
  BY <1>8, <1>10 DEF OnlyParChanged
<1> QED BY <1>10, <1>19, <1>20, <1>21, <1>22, <1>23 DEF AccountsInv

\* An action that leaves the slices and the loan as they are.
LEMMA SlicesUntouched ==
    ASSUME AccountsInv, UNCHANGED <<slices, totalDeployed, totalMinted, balance>>,
           cash' \in Nat, redeemed' \in Nat, swept' \in Nat,
           cash' + redeemed' + swept' = cash + redeemed + swept,
           SwitchesOk', TokensOk', maxLimit' \in Limits,
           \A i \in DOMAIN slices, kind \in Kinds :
              /\ PrincipalIn(tokens', <<i, kind>>) \in Nat
              /\ PrincipalIn(tokens', <<i, kind>>) <= PrincipalIn(tokens, <<i, kind>>)
    PROVE  AccountsInv' /\ LocksKept /\ OnlyParChanged
<1>1. PoolInv
  BY DEF AccountsInv
<1>2. LocksKept
  BY DEF LocksKept
<1>3. \A i \in DOMAIN slices, kind \in Kinds :
          PrincipalIn(tokens', <<i, kind>>) <= slices[i][kind].principalDeposited
  <2> SUFFICES ASSUME NEW i \in DOMAIN slices, NEW kind \in Kinds
               PROVE  PrincipalIn(tokens', <<i, kind>>) <= slices[i][kind].principalDeposited
    OBVIOUS
  <2>1. PrincipalIn(tokens, <<i, kind>>) <= slices[i][kind].principalDeposited
    BY <1>1 DEF PoolInv
  <2>2. slices[i][kind].principalDeposited \in Nat
    BY <1>1, PoolFacts, KindFacts
  <2>3. PrincipalIn(tokens, <<i, kind>>) \in Nat
    BY <1>1, TokenFacts, PrincipalInFacts
  <2> QED BY <2>1, <2>2, <2>3
<1>4. LedgerOk'
  BY <1>1 DEF PoolInv, PoolTypeOK, LedgerOk
<1>5. PoolInv'
  BY <1>1, <1>3, <1>4 DEF PoolInv, PoolTypeOK
<1>6. DepositsMatchTokens'
  BY DEF AccountsInv, DepositsMatchTokens
<1>7. EntitlementsFunded'
  BY DEF AccountsInv, EntitlementsFunded
<1>8. DeploymentCoversLoan'
  BY DEF AccountsInv, DeploymentCoversLoan
<1>9. OnlyParChanged
  BY DEF OnlyParChanged
<1> QED BY <1>2, <1>5, <1>6, <1>7, <1>8, <1>9 DEF AccountsInv

\* What a token may redeem is an amount.
LEMMA RedeemableFacts ==
    ASSUME PoolInv, NEW id \in DOMAIN tokens, CanCompute(id)
    PROVE  PrincipalRedeemable(id) \in Nat /\ InterestRedeemable(id) \in Nat
<1>1. /\ tokens[id].principalAmount \in Nat
      /\ tokens[id].principalRedeemed \in Nat /\ tokens[id].interestRedeemed \in Nat
      /\ tokens[id].tranche[1] \in DOMAIN slices /\ tokens[id].tranche[2] \in Kinds
  BY TokenFacts
<1>2. slices[tokens[id].tranche[1]] \in SliceType
  BY <1>1, PoolFacts
<1>3. /\ TrancheOf(id).principalSharePrice \in Nat
      /\ TrancheOf(id).interestSharePrice \in Nat
  BY <1>1, <1>2, KindFacts DEF TrancheOf
<1>4. MaxPrincipalRedeemable(id) \in Nat /\ MaxInterestRedeemable(id) \in Nat
  BY <1>1, <1>3, UsdcFacts DEF MaxPrincipalRedeemable, MaxInterestRedeemable
<1> QED BY <1>1, <1>4 DEF CanCompute, PrincipalRedeemable, InterestRedeemable

LEMMA RedeemTokenKeeps ==
    ASSUME AccountsInv, NEW id \in DOMAIN tokens, NEW amount \in Nat,
           Withdraw(id, amount), RedeemToken(id, amount)
    PROVE  AccountsInv' /\ LocksKept /\ OnlyParChanged
<1> DEFINE interest == Smaller(InterestRedeemable(id), amount)
           principal == Smaller(PrincipalRedeemable(id), amount - interest)
<1>1. PoolInv /\ CanCompute(id) /\ amount <= cash /\ cash' = cash - amount
  BY DEF AccountsInv, Withdraw
<1>2. PrincipalRedeemable(id) \in Nat /\ InterestRedeemable(id) \in Nat
  BY <1>1, RedeemableFacts
<1>3. interest \in Nat /\ principal \in Nat
  BY <1>2 DEF Smaller
<1>4. redeem(id, principal, interest) /\ redeemed' = redeemed + amount /\ slices' = slices
  BY DEF RedeemToken
<1> HIDE DEF interest, principal
<1>5. /\ UNCHANGED <<balance, maxLimit, totalDeployed, fundableAt, paused, drawdownsPaused, swept>>
  BY DEF Withdraw, clVars, limits, accounting, switches
<1>6. /\ IsFiniteSet(DOMAIN tokens) /\ lastTokenId \in Nat
      /\ DOMAIN tokens \subseteq 1..lastTokenId /\ totalPrincipalRedeemed \in Nat
      /\ \A x \in DOMAIN tokens : /\ tokens[x] \in TokenType
                                  /\ tokens[x].principalAmount \in Nat
                                  /\ tokens[x].principalRedeemed \in Nat
                                  /\ tokens[x].interestRedeemed \in Nat
  BY <1>1, TokenFacts
<1>7. /\ totalPrincipalRedeemed' = totalPrincipalRedeemed + principal
      /\ lastTokenId' = lastTokenId /\ totalMinted' = totalMinted
      /\ tokens' = [tokens EXCEPT ![id].principalRedeemed = @ + principal,
                                  ![id].interestRedeemed = @ + interest]
  BY <1>4 DEF redeem
<1> DEFINE token == [tokens[id] EXCEPT !.principalRedeemed = @ + principal,
                                       !.interestRedeemed = @ + interest]
<1>8. /\ DOMAIN tokens' = DOMAIN tokens
      /\ tokens'[id] = token
      /\ \A x \in DOMAIN tokens \ {id} : tokens'[x] = tokens[x]
  BY <1>7
<1>9. /\ token \in TokenType
      /\ token.tranche = tokens[id].tranche
      /\ token.principalAmount = tokens[id].principalAmount
  <2>1. PICK p \in Nat, q \in Nat : /\ p = tokens[id].principalRedeemed + principal
                                    /\ q = tokens[id].interestRedeemed + interest
    BY <1>3, <1>6
  <2>2. token = [tokens[id] EXCEPT !.principalRedeemed = p, !.interestRedeemed = q]
    BY <2>1
  <2>3. tokens[id] \in TokenType
    BY <1>6
  <2> HIDE DEF token
  <2> QED BY <2>2, <2>3 DEF TokenType
<1> HIDE DEF token
<1>10. TokensOk'
  <2>1. \A x \in DOMAIN tokens' : tokens'[x] \in TokenType
    BY <1>6, <1>8, <1>9
  <2>2. TokenType' = TokenType
    BY <1>4 DEF TokenType
  <2>3. \A x \in DOMAIN tokens' : tokens'[x] \in TokenType'
    BY <2>1, <2>2
  <2>4. lastTokenId' \in Nat /\ totalMinted' \in Nat /\ totalPrincipalRedeemed' \in Nat
    BY <1>1, <1>3, <1>6, <1>7, PoolFacts
  <2>5. DOMAIN tokens' \subseteq 1..lastTokenId'
    BY <1>6, <1>7, <1>8
  <2> QED BY <2>3, <2>4, <2>5 DEF TokensOk
<1>11. \A i \in DOMAIN slices, kind \in Kinds :
          /\ PrincipalIn(tokens', <<i, kind>>) \in Nat
          /\ PrincipalIn(tokens', <<i, kind>>) <= PrincipalIn(tokens, <<i, kind>>)
  <2> SUFFICES ASSUME NEW i \in DOMAIN slices, NEW kind \in Kinds
      PROVE /\ PrincipalIn(tokens', <<i, kind>>) \in Nat
            /\ PrincipalIn(tokens', <<i, kind>>) <= PrincipalIn(tokens, <<i, kind>>)
    OBVIOUS
  <2>1. \A x \in DOMAIN tokens :
           /\ tokens'[x].tranche = tokens[x].tranche
           /\ tokens'[x].principalAmount = tokens[x].principalAmount
    BY <1>8, <1>9
  <2>2. PrincipalIn(tokens', <<i, kind>>) = PrincipalIn(tokens, <<i, kind>>)
    BY <1>6, <1>8, <2>1, PrincipalInSame
  <2>3. PrincipalIn(tokens, <<i, kind>>) \in Nat
    BY <1>6, PrincipalInFacts
  <2> QED BY <2>2, <2>3
<1>12. SwitchesOk' /\ maxLimit' \in Limits
  BY <1>1, <1>5 DEF PoolInv, PoolTypeOK, SwitchesOk
<1>13. /\ cash' \in Nat /\ redeemed' \in Nat /\ swept' \in Nat
       /\ cash' + redeemed' + swept' = cash + redeemed + swept
  <2>1. cash \in Nat /\ redeemed \in Nat /\ swept \in Nat
    BY <1>1, PoolFacts
  <2> QED BY <1>1, <1>4, <1>5, <2>1
<1> QED BY <1>4, <1>5, <1>7, <1>10, <1>11, <1>12, <1>13, SlicesUntouched

LEMMA WithdrawDepositKeeps ==
    ASSUME AccountsInv, NEW id \in DOMAIN tokens, NEW amount \in Nat,
           Withdraw(id, amount), WithdrawDeposit(id, amount)
    PROVE  AccountsInv' /\ LocksKept /\ OnlyParChanged
<1> DEFINE i == tokens[id].tranche[1]
           kind == tokens[id].tranche[2]
           n == slices[i][kind].principalDeposited - amount
           slice == WithDeposit(slices[i], kind, n)
<1>1. PoolInv /\ amount <= cash /\ cash' = cash - amount
  BY DEF AccountsInv, Withdraw
<1>2. /\ IsFiniteSet(DOMAIN tokens) /\ lastTokenId \in Nat
      /\ DOMAIN tokens \subseteq 1..lastTokenId /\ totalPrincipalRedeemed \in Nat
      /\ \A x \in DOMAIN tokens : tokens[x] \in TokenType /\ tokens[x].principalAmount \in Nat
  BY <1>1, TokenFacts
<1>3. i \in DOMAIN slices /\ kind \in Kinds /\ tokens[id].tranche = <<i, kind>>
  BY <1>1, TokenFacts
<1>4. /\ slices[i] \in SliceType
      /\ cash \in Nat /\ totalMinted \in Nat
      /\ DepositedIn(slices) \in Nat /\ EntitledIn(slices) \in Nat
      /\ DeployedIn(slices) \in Nat /\ redeemed \in Nat /\ swept \in Nat
  BY <1>1, <1>3, PoolFacts
<1>5. slices[i][kind].lockedUntil = 0
  BY DEF WithdrawDeposit, TrancheOf
<1>6. slices' = [slices EXCEPT ![i] = slice]
  BY DEF WithdrawDeposit, WithDeposit
<1>7. /\ tokens[id].principalAmount >= amount
      /\ totalMinted - amount >= totalPrincipalRedeemed
      /\ totalMinted' = totalMinted - amount
      /\ tokens' = [tokens EXCEPT ![id].principalAmount = @ - amount]
      /\ UNCHANGED <<lastTokenId, totalPrincipalRedeemed, redeemed>>
  BY DEF WithdrawDeposit, withdrawPrincipal
<1>8. UNCHANGED <<balance, maxLimit, totalDeployed, fundableAt, paused, drawdownsPaused, swept>>
  BY DEF Withdraw, clVars, limits, accounting, switches
<1> HIDE DEF i, kind, n, slice
<1>9. ~isLocked(slices[i]) /\ i = Len(slices) /\ AtPar(slices[i])
  BY <1>1, <1>3, <1>5, OpenTranche
<1>10. slices[i][kind].principalDeposited \in Nat /\ Deposited(slices[i]) \in Nat
  BY <1>3, <1>4, KindFacts, SliceFacts
<1>11. n \in Nat
  <2>1. PrincipalIn(tokens, <<i, kind>>) <= slices[i][kind].principalDeposited
    BY <1>1, <1>3 DEF PoolInv
  <2>2. /\ PrincipalIn(tokens, <<i, kind>>) \in Nat
        /\ tokens[id].principalAmount <= PrincipalIn(tokens, <<i, kind>>)
    BY <1>2, <1>3, PrincipalInFacts
  <2>3. tokens[id].principalAmount \in Nat
    BY <1>2
  <2> QED BY <1>7, <1>10, <2>1, <2>2, <2>3 DEF n
<1>12. /\ slice \in SliceType /\ AtPar(slice)
       /\ slice[kind].principalDeposited = n
       /\ \A k \in Kinds : /\ slice[k].lockedUntil = slices[i][k].lockedUntil
                           /\ k # kind => slice[k] = slices[i][k]
       /\ slice.senior.lockedUntil = slices[i].senior.lockedUntil
       /\ Deposited(slice) = Deposited(slices[i])
                               - slices[i][kind].principalDeposited + n
  <2>1. slices[i] \in SliceType /\ AtPar(slices[i])
    BY <1>4, <1>9
  <2>2. DepositSet(slices[i], slice, kind, n)
    BY <1>3, <1>11, <2>1, DepositChanged DEF slice
  <2> QED BY <2>2 DEF DepositSet
<1>13. InOrder(slice, i = Len(slices))
  BY <1>9, <1>12 DEF InOrder, isLocked
<1>14. /\ slices' \in Seq(SliceType) /\ Len(slices') = Len(slices)
       /\ DOMAIN slices' = DOMAIN slices /\ slices'[i] = slice
       /\ \A j \in DOMAIN slices \ {i} : slices'[j] = slices[j]
       /\ \A j \in DOMAIN slices' : InOrder(slices'[j], j = Len(slices'))
       /\ LocksKept
       /\ DeployedIn(slices') = DeployedIn(slices) - slices[i].principalDeployed
                                      + slice.principalDeployed
       /\ DepositedIn(slices') = DepositedIn(slices) - Deposited(slices[i])
                                       + Deposited(slice)
       /\ EntitledIn(slices') = EntitledIn(slices) - SliceEntitlement(slices[i])
                                      + SliceEntitlement(slice)
  BY <1>1, <1>3, <1>6, <1>9, <1>12, <1>13, OneSliceChanged
<1>15. /\ slices[i].principalDeployed = 0 /\ slice.principalDeployed = 0
       /\ SliceEntitlement(slices[i]) = Deposited(slices[i])
       /\ SliceEntitlement(slice) = Deposited(slice)
  BY <1>4, <1>9, <1>12, AtParFacts DEF AtPar
<1>16. Deposited(slice) = Deposited(slices[i]) - amount
  BY <1>10, <1>12 DEF n
<1>17. /\ DeployedIn(slices') = DeployedIn(slices)
       /\ DepositedIn(slices') = DepositedIn(slices) - amount
       /\ EntitledIn(slices') = EntitledIn(slices) - amount
  BY <1>4, <1>10, <1>14, <1>15, <1>16
\* The token.
<1> DEFINE token == [tokens[id] EXCEPT !.principalAmount = @ - amount]
<1>18. /\ DOMAIN tokens' = DOMAIN tokens
       /\ tokens'[id] = token
       /\ \A x \in DOMAIN tokens \ {id} : tokens'[x] = tokens[x]
  BY <1>7
<1>19. /\ token \in TokenType
       /\ token.tranche = tokens[id].tranche
       /\ token.principalAmount = tokens[id].principalAmount - amount
  <2>1. tokens[id] \in TokenType /\ tokens[id].principalAmount \in Nat
    BY <1>2
  <2>2. PICK p \in Nat : p = tokens[id].principalAmount - amount
    BY <1>7, <2>1
  <2>3. token = [tokens[id] EXCEPT !.principalAmount = p]
    BY <2>2
  <2> HIDE DEF token
  <2> QED BY <2>1, <2>2, <2>3 DEF TokenType
<1> HIDE DEF token
<1>20. TokensOk'
  <2>1. \A x \in DOMAIN tokens' : tokens'[x] \in TokenType
    BY <1>2, <1>18, <1>19
  <2>2. TokenType' = TokenType
    BY <1>14 DEF TokenType
  <2>3. \A x \in DOMAIN tokens' : tokens'[x] \in TokenType'
    BY <2>1, <2>2
  <2>4. lastTokenId' \in Nat /\ totalMinted' \in Nat /\ totalPrincipalRedeemed' \in Nat
    BY <1>2, <1>4, <1>7
  <2>5. DOMAIN tokens' \subseteq 1..lastTokenId'
    BY <1>2, <1>7, <1>18
  <2> QED BY <2>3, <2>4, <2>5 DEF TokensOk
<1>21. \A j \in DOMAIN slices', k \in Kinds :
          PrincipalIn(tokens', <<j, k>>) <= slices'[j][k].principalDeposited
  <2> SUFFICES ASSUME NEW j \in DOMAIN slices, NEW k \in Kinds
               PROVE  PrincipalIn(tokens', <<j, k>>) <= slices'[j][k].principalDeposited
    BY <1>14
  <2>1. PrincipalIn(tokens, <<j, k>>) <= slices[j][k].principalDeposited
    BY <1>1 DEF PoolInv
  <2>2. PrincipalIn(tokens', <<j, k>>) = PrincipalIn(tokens, <<j, k>>)
            - (IF tokens[id].tranche = <<j, k>> THEN amount ELSE 0)
    <3>1. TakenBack(tokens, tokens', id, amount)
      BY <1>2, <1>18, <1>19 DEF TakenBack
    <3> QED BY <1>2, <3>1, PrincipalInWithdrawn
  <2>3. PrincipalIn(tokens, <<j, k>>) \in Nat
    BY <1>2, PrincipalInFacts
  <2>4. slices[j] \in SliceType /\ slices[j][k].principalDeposited \in Nat
    BY <1>1, PoolFacts, KindFacts
  <2>5. CASE j = i /\ k = kind
    <3>1. tokens[id].tranche = <<j, k>>
      BY <1>3, <2>5
    <3>2. slices'[j][k].principalDeposited = slices[j][k].principalDeposited - amount
      BY <1>12, <1>14, <2>5 DEF n
    <3> QED BY <2>1, <2>2, <2>3, <2>4, <3>1, <3>2
  <2>6. CASE ~(j = i /\ k = kind)
    <3>1. slices'[j][k].principalDeposited = slices[j][k].principalDeposited
      BY <1>12, <1>14, <2>6
    <3>2. tokens[id].tranche # <<j, k>>
      BY <1>3, <2>6
    <3> QED BY <2>1, <2>2, <2>3, <2>4, <3>1, <3>2
  <2> QED BY <2>5, <2>6
<1>22. PoolInv'
  <2>1. /\ SwitchesOk /\ maxLimit \in Limits /\ Len(slices) \in 1..MaxSlices
        /\ totalDeployed \in Nat /\ totalDeployed = DeployedIn(slices)
    BY <1>1 DEF PoolInv, PoolTypeOK, LedgerOk
  <2>2. LedgerOk'
    BY <1>1, <1>4, <1>7, <1>8, <1>14, <2>1 DEF LedgerOk
  <2>3. SwitchesOk'
    BY <1>8, <2>1 DEF SwitchesOk
  <2>4. totalDeployed' = DeployedIn(slices')
    BY <1>8, <1>17, <2>1
  <2> QED BY <1>8, <1>14, <1>20, <1>21, <2>1, <2>2, <2>3, <2>4 DEF PoolInv, PoolTypeOK
<1>23. DepositsMatchTokens'
  BY <1>4, <1>7, <1>17 DEF AccountsInv, DepositsMatchTokens
<1>24. EntitlementsFunded'
  <2>1. EntitledIn(slices) <= cash + redeemed + swept
    BY DEF AccountsInv, EntitlementsFunded
  <2> QED BY <1>1, <1>4, <1>7, <1>8, <1>17, <2>1 DEF EntitlementsFunded
<1>25. DeploymentCoversLoan'
  BY <1>8, <1>14, <1>17 DEF AccountsInv, DeploymentCoversLoan
<1>26. OnlyParChanged
  BY <1>12, <1>14 DEF OnlyParChanged
<1> QED BY <1>14, <1>22, <1>23, <1>24, <1>25, <1>26 DEF AccountsInv

LEMMA WithdrawKeeps ==
    ASSUME AccountsInv, NEW id \in DOMAIN tokens,
           NEW amount \in DepositAmounts \cup {Redeemable(id)}, Withdraw(id, amount)
    PROVE  AccountsInv' /\ LocksKept /\ OnlyParChanged
<1>1. PoolInv /\ CanCompute(id)
  BY DEF AccountsInv, Withdraw
<1>2. Redeemable(id) \in Nat
  BY <1>1, RedeemableFacts DEF Redeemable
<1>3. amount \in Nat
  BY <1>2, TranchedPoolAssumption
<1> QED BY <1>3, RedeemTokenKeeps, WithdrawDepositKeeps DEF Withdraw

LEMMA BurnKeeps ==
    ASSUME AccountsInv, NEW id \in DOMAIN tokens, Burn(id)
    PROVE  AccountsInv' /\ LocksKept /\ OnlyParChanged
<1>1. PoolInv
  BY DEF AccountsInv
<1>2. /\ tokens' = Restrict(tokens, DOMAIN tokens \ {id})
      /\ UNCHANGED <<lastTokenId, totalMinted, totalPrincipalRedeemed>>
      /\ UNCHANGED <<slices, totalDeployed, cash, redeemed, swept, balance, maxLimit>>
      /\ UNCHANGED <<fundableAt, paused, drawdownsPaused>>
  BY DEF Burn, burn, clVars, limits, accounting, ledger, switches
<1>3. /\ IsFiniteSet(DOMAIN tokens) /\ lastTokenId \in Nat
      /\ DOMAIN tokens \subseteq 1..lastTokenId
      /\ \A x \in DOMAIN tokens : tokens[x] \in TokenType /\ tokens[x].principalAmount \in Nat
  BY <1>1, TokenFacts
<1>4. /\ DOMAIN tokens' = DOMAIN tokens \ {id}
      /\ \A x \in DOMAIN tokens \ {id} : tokens'[x] = tokens[x]
  BY <1>2 DEF Restrict
<1>5. TokensOk'
  <2>1. TokenType' = TokenType
    BY <1>2 DEF TokenType
  <2>2. \A x \in DOMAIN tokens' : tokens'[x] \in TokenType'
    BY <1>3, <1>4, <2>1
  <2>3. totalMinted \in Nat /\ totalPrincipalRedeemed \in Nat
    BY <1>1, PoolFacts, TokenFacts
  <2> QED BY <1>2, <1>3, <1>4, <2>2, <2>3 DEF TokensOk
<1>6. \A i \in DOMAIN slices, kind \in Kinds :
          /\ PrincipalIn(tokens', <<i, kind>>) \in Nat
          /\ PrincipalIn(tokens', <<i, kind>>) <= PrincipalIn(tokens, <<i, kind>>)
  <2> SUFFICES ASSUME NEW i \in DOMAIN slices, NEW kind \in Kinds
      PROVE /\ PrincipalIn(tokens', <<i, kind>>) \in Nat
            /\ PrincipalIn(tokens', <<i, kind>>) <= PrincipalIn(tokens, <<i, kind>>)
    OBVIOUS
  <2>1. PrincipalIn(Restrict(tokens, DOMAIN tokens \ {id}), <<i, kind>>)
          <= PrincipalIn(tokens, <<i, kind>>)
    BY <1>3, PrincipalInBurned
  <2>2. PrincipalIn(tokens', <<i, kind>>) \in Nat
    <3>1. IsFiniteSet(DOMAIN tokens')
      BY <1>3, <1>4, FS_Subset
    <3>2. \A x \in DOMAIN tokens' : tokens'[x].principalAmount \in Nat
      BY <1>3, <1>4
    <3> QED BY <3>1, <3>2, PrincipalInFacts
  <2> QED BY <1>2, <2>1, <2>2
<1>7. SwitchesOk' /\ maxLimit' \in Limits
  BY <1>1, <1>2 DEF PoolInv, PoolTypeOK, SwitchesOk
<1>8. cash \in Nat /\ redeemed \in Nat /\ swept \in Nat
  BY <1>1, PoolFacts
<1> QED BY <1>2, <1>5, <1>6, <1>7, <1>8, SlicesUntouched

\* An action that leaves the tokens, and what is deposited in each tranche, as they are.
LEMMA TokensUntouched ==
    ASSUME PoolInv, UNCHANGED tokenVars, DOMAIN slices' = DOMAIN slices,
           \A i \in DOMAIN slices, kind \in Kinds :
              slices'[i][kind].principalDeposited = slices[i][kind].principalDeposited
    PROVE  /\ TokensOk'
           /\ \A i \in DOMAIN slices', kind \in Kinds :
                 PrincipalIn(tokens', <<i, kind>>) <= slices'[i][kind].principalDeposited
<1>1. TokenType' = TokenType
  BY DEF TokenType
<1>2. UNCHANGED <<tokens, lastTokenId, totalMinted, totalPrincipalRedeemed>>
  BY DEF tokenVars
<1>3. TokensOk
  BY DEF PoolInv, PoolTypeOK
<1>4. TokensOk'
  BY <1>1, <1>2, <1>3 DEF TokensOk
<1>5. \A i \in DOMAIN slices, kind \in Kinds :
          PrincipalIn(tokens, <<i, kind>>) <= slices[i][kind].principalDeposited
  BY DEF PoolInv
<1> QED BY <1>2, <1>4, <1>5

\* An action that keeps the tokens, the cash and the deposits, and for which the
\* slices are shown to be as they should.
LEMMA SlicesReplaced ==
    ASSUME PoolInv, UNCHANGED tokenVars, UNCHANGED <<fundableAt, switches>>,
           slices' \in Seq(SliceType), Len(slices') = Len(slices), DOMAIN slices' = DOMAIN slices,
           \A i \in DOMAIN slices' : InOrder(slices'[i], i = Len(slices')),
           \A i \in DOMAIN slices, kind \in Kinds :
              slices'[i][kind].principalDeposited = slices[i][kind].principalDeposited,
           totalDeployed' = DeployedIn(slices'),
           cash' \in Nat, redeemed' \in Nat, swept' \in Nat, maxLimit' \in Limits
    PROVE  PoolInv'
<1>1. /\ TokensOk'
      /\ \A i \in DOMAIN slices', kind \in Kinds :
             PrincipalIn(tokens', <<i, kind>>) <= slices'[i][kind].principalDeposited
  BY TokensUntouched
<1>2. SwitchesOk /\ Len(slices) \in 1..MaxSlices
  BY DEF PoolInv, PoolTypeOK, LedgerOk
<1>3. SwitchesOk'
  BY <1>2 DEF SwitchesOk, switches
<1>4. totalDeployed' \in Nat
  <2>1. PICK after \in Seq(SliceType) : after = slices'
    OBVIOUS
  <2>2. DeployedIn(after) \in Nat
    BY TotalsAreNatural
  <2> QED BY <2>1, <2>2
<1>5. LedgerOk'
  BY <1>2, <1>4 DEF LedgerOk
<1> QED BY <1>1, <1>3, <1>5 DEF PoolInv, PoolTypeOK

-----------------------------------------------------------------------------
(* The borrower.                                                           *)

\* A slice of which nothing but the locks changes, unless it was locked already.
LEMMA LockKeeps ==
    ASSUME AccountsInv, NEW slice, ~isLocked(slices[Current]),
           OnlyLocked(slices[Current], slice), slice.senior.lockedUntil \in Nat,
           slices' = [slices EXCEPT ![Current] = slice],
           UNCHANGED tokenVars, UNCHANGED <<fundableAt, switches>>,
           UNCHANGED <<balance, maxLimit, totalDeployed, cash, redeemed, swept>>
    PROVE  AccountsInv' /\ LocksKept /\ OnlyParChanged
<1> DEFINE c == Current
<1>1. PoolInv
  BY DEF AccountsInv
<1>2. /\ c \in DOMAIN slices /\ c = Len(slices) /\ slices[c] \in SliceType
      /\ cash \in Nat /\ redeemed \in Nat /\ swept \in Nat
      /\ DepositedIn(slices) \in Nat /\ EntitledIn(slices) \in Nat
      /\ DeployedIn(slices) \in Nat
  BY <1>1, PoolFacts
<1>3. InOrder(slices[c], TRUE)
  BY <1>1, <1>2 DEF PoolInv
<1>4. AtPar(slices[c])
  BY <1>3 DEF InOrder
<1>5. /\ slice \in SliceType /\ slice.principalDeployed = slices[c].principalDeployed
      /\ Deposited(slice) = Deposited(slices[c])
      /\ SliceEntitlement(slice) = SliceEntitlement(slices[c])
      /\ \A kind \in Kinds :
            slice[kind].principalDeposited = slices[c][kind].principalDeposited
  BY DEF OnlyLocked
<1>6. AtPar(slice)
  BY <1>4 DEF AtPar, OnlyLocked
<1>7. InOrder(slice, c = Len(slices))
  BY <1>2, <1>6 DEF InOrder, OnlyLocked
<1> HIDE DEF c
<1>8. slices' = [slices EXCEPT ![c] = slice] /\ ~isLocked(slices[c])
  BY DEF c
<1>9. /\ slices' \in Seq(SliceType) /\ Len(slices') = Len(slices)
      /\ DOMAIN slices' = DOMAIN slices /\ slices'[c] = slice
      /\ \A j \in DOMAIN slices \ {c} : slices'[j] = slices[j]
      /\ \A j \in DOMAIN slices' : InOrder(slices'[j], j = Len(slices'))
      /\ LocksKept
      /\ DeployedIn(slices') = DeployedIn(slices) - slices[c].principalDeployed
                                      + slice.principalDeployed
      /\ DepositedIn(slices') = DepositedIn(slices) - Deposited(slices[c])
                                       + Deposited(slice)
      /\ EntitledIn(slices') = EntitledIn(slices) - SliceEntitlement(slices[c])
                                      + SliceEntitlement(slice)
  BY <1>1, <1>2, <1>5, <1>7, <1>8, OneSliceChanged
<1>10. /\ DeployedIn(slices') = DeployedIn(slices)
       /\ DepositedIn(slices') = DepositedIn(slices)
       /\ EntitledIn(slices') = EntitledIn(slices)
  <2>1. /\ slices[c].principalDeployed \in Nat /\ Deposited(slices[c]) \in Nat
        /\ SliceEntitlement(slices[c]) \in Nat
    BY <1>2, SliceFacts
  <2> QED BY <1>2, <1>5, <1>9, <2>1
<1>11. \A j \in DOMAIN slices, kind \in Kinds :
          slices'[j][kind].principalDeposited = slices[j][kind].principalDeposited
  <2> SUFFICES ASSUME NEW j \in DOMAIN slices, NEW kind \in Kinds
      PROVE slices'[j][kind].principalDeposited = slices[j][kind].principalDeposited
    OBVIOUS
  <2>1. CASE j = c
    BY <1>5, <1>9, <2>1
  <2>2. CASE j # c
    BY <1>9, <2>2
  <2> QED BY <2>1, <2>2
<1>12. PoolInv'
  <2>1. totalDeployed' = DeployedIn(slices') /\ maxLimit' \in Limits
    BY <1>1, <1>10 DEF PoolInv
  <2> QED BY <1>1, <1>2, <1>9, <1>11, <2>1, SlicesReplaced
<1>13. DepositsMatchTokens' /\ EntitlementsFunded' /\ DeploymentCoversLoan'
  BY <1>9, <1>10
  DEF AccountsInv, DepositsMatchTokens, EntitlementsFunded, DeploymentCoversLoan, tokenVars
<1>14. OnlyParChanged
  BY <1>6, <1>9 DEF OnlyParChanged
<1> QED BY <1>9, <1>12, <1>13, <1>14 DEF AccountsInv

LEMMA LockTime ==
    ASSUME ScheduleInv PROVE now + DrawdownPeriod \in Nat \ {0}
BY TranchedPoolAssumption DEF ScheduleInv, TypeOK

LEMMA LockSliceFacts ==
    ASSUME ScheduleInv, NEW slice \in SliceType
    PROVE  /\ OnlyLocked(slice, LockSlice(slice)) /\ isLocked(LockSlice(slice))
           /\ LockSlice(slice).senior.lockedUntil \in Nat
<1> DEFINE t == now + DrawdownPeriod
<1>1. t \in Nat \ {0}
  BY LockTime
<1>2. LockSlice(slice) = WithLocks(slice, t, t)
  BY DEF LockSlice, Lock, WithLocks
<1> HIDE DEF t
<1>3. OnlyLocked(slice, LockSlice(slice)) /\ LockSlice(slice).senior.lockedUntil = t
  BY <1>1, <1>2, LockFacts
<1> QED BY <1>1, <1>3 DEF isLocked

LEMMA LockJuniorKeeps ==
    ASSUME AccountsInv, ScheduleInv, LockJuniorCapital
    PROVE  AccountsInv' /\ LocksKept /\ OnlyParChanged
<1> DEFINE s == slices[Current]
           t == now + DrawdownPeriod
           slice == [s EXCEPT !.junior = [@ EXCEPT !.lockedUntil = t]]
<1>1. PoolInv
  BY DEF AccountsInv
<1>2. s \in SliceType
  BY <1>1, PoolFacts
<1>3. t \in Nat \ {0}
  BY LockTime
<1>4. slices' = [slices EXCEPT ![Current] = slice] /\ ~isLocked(s)
  BY DEF LockJuniorCapital, Lock, Locked
<1>5. s.senior.lockedUntil \in Nat
  BY <1>2, KindFacts DEF Kinds
<1>6. slice = WithLocks(s, s.senior.lockedUntil, t)
  <2>1. s.senior \in TrancheType
    BY <1>2, SliceFacts
  <2>2. [s.senior EXCEPT !.lockedUntil = s.senior.lockedUntil] = s.senior
    BY <2>1 DEF TrancheType
  <2>3. [s EXCEPT !.senior = s.senior] = s
    BY <1>2 DEF SliceType
  <2> HIDE DEF s, t
  <2> QED BY <1>2, <2>1, <2>2, <2>3 DEF SliceType, WithLocks
<1> HIDE DEF s, t, slice
<1>7. OnlyLocked(s, slice) /\ slice.senior.lockedUntil = s.senior.lockedUntil
  BY <1>2, <1>3, <1>5, <1>6, LockFacts
<1>8. /\ UNCHANGED tokenVars /\ UNCHANGED <<fundableAt, switches>>
      /\ UNCHANGED <<balance, maxLimit, totalDeployed, cash, redeemed, swept>>
  BY DEF LockJuniorCapital, clVars, limits, accounting
<1>9. /\ ~isLocked(slices[Current]) /\ OnlyLocked(slices[Current], slice)
      /\ slice.senior.lockedUntil \in Nat
  BY <1>4, <1>5, <1>7 DEF s
<1> QED BY <1>4, <1>8, <1>9, LockKeeps

LEMMA LockPoolKeeps ==
    ASSUME AccountsInv, ScheduleInv, LockPool
    PROVE  AccountsInv' /\ LocksKept /\ OnlyParChanged
<1> DEFINE slice == LockSlice(slices[Current])
<1>1. slices[Current] \in SliceType
  BY PoolFacts DEF AccountsInv
<1>2. /\ OnlyLocked(slices[Current], slice)
      /\ slice.senior.lockedUntil \in Nat
  BY <1>1, LockSliceFacts
<1>3. slices' = [slices EXCEPT ![Current] = slice] /\ ~isLocked(slices[Current])
  BY <1>1, SliceFacts DEF LockPool, CanLock, isLocked
<1>4. /\ UNCHANGED tokenVars /\ UNCHANGED <<fundableAt, switches>>
      /\ UNCHANGED <<balance, maxLimit, totalDeployed, cash, redeemed, swept>>
  BY DEF LockPool, SetLimit, accounting
<1> HIDE DEF slice
<1> QED BY <1>2, <1>3, <1>4, LockKeeps

-----------------------------------------------------------------------------
(* The admin, and what happens to the credit line alone.                   *)

\* An action that leaves the slices, the tokens and the loan as they are.
LEMMA OnlySwitched ==
    ASSUME AccountsInv, UNCHANGED <<slices, totalDeployed, balance>>, UNCHANGED tokenVars,
           cash' \in Nat, redeemed' \in Nat, swept' \in Nat,
           cash' + redeemed' + swept' = cash + redeemed + swept,
           SwitchesOk', maxLimit' \in Limits
    PROVE  AccountsInv' /\ LocksKept /\ OnlyParChanged
<1>1. PoolInv
  BY DEF AccountsInv
<1>2. DOMAIN slices' = DOMAIN slices /\ UNCHANGED <<tokens, totalMinted>>
  BY DEF tokenVars
<1>3. TokensOk'
  BY <1>1, <1>2, TokensUntouched
<1>4. \A i \in DOMAIN slices, kind \in Kinds :
          /\ PrincipalIn(tokens', <<i, kind>>) \in Nat
          /\ PrincipalIn(tokens', <<i, kind>>) <= PrincipalIn(tokens, <<i, kind>>)
  <2>1. /\ IsFiniteSet(DOMAIN tokens)
        /\ \A x \in DOMAIN tokens : tokens[x].principalAmount \in Nat
    BY <1>1, TokenFacts
  <2> SUFFICES ASSUME NEW i \in DOMAIN slices, NEW kind \in Kinds
               PROVE  /\ PrincipalIn(tokens', <<i, kind>>) \in Nat
                      /\ PrincipalIn(tokens', <<i, kind>>) <= PrincipalIn(tokens, <<i, kind>>)
    OBVIOUS
  <2>2. PICK n \in Nat : n = PrincipalIn(tokens, <<i, kind>>)
    BY <2>1, PrincipalInFacts
  <2>3. PrincipalIn(tokens', <<i, kind>>) = n
    BY <1>2, <2>2
  <2> QED BY <2>2, <2>3
<1> QED BY <1>2, <1>3, <1>4, SlicesUntouched

LEMMA SwitchKeeps ==
    ASSUME AccountsInv,
           \/ \E time \in FundableTimes : SetFundableAt(time)
           \/ \E value \in PauseValues : SetPaused(value) \/ SetDrawdownsPaused(value)
           \/ UNCHANGED <<clVars, poolVars>>
    PROVE  AccountsInv' /\ LocksKept /\ OnlyParChanged
<1>1. /\ UNCHANGED <<clVars, ledger, tokenVars>>
      /\ fundableAt' \in FundableTimes \cup {fundableAt}
      /\ paused' \in PauseValues \cup {paused}
      /\ drawdownsPaused' \in PauseValues \cup {drawdownsPaused}
  BY DEF SetFundableAt, SetPaused, SetDrawdownsPaused, switches, poolVars
<1>2. /\ UNCHANGED <<slices, totalDeployed, balance, cash, redeemed, swept, maxLimit>>
      /\ UNCHANGED tokenVars
  BY <1>1 DEF clVars, limits, accounting, ledger
<1>3. /\ SwitchesOk /\ maxLimit \in Limits
      /\ cash \in Nat /\ redeemed \in Nat /\ swept \in Nat
  BY PoolFacts DEF AccountsInv, PoolInv, PoolTypeOK
<1>4. SwitchesOk'
  BY <1>1, <1>3, TranchedPoolAssumption DEF SwitchesOk
<1> QED BY <1>2, <1>3, <1>4, OnlySwitched

LEMMA EmergencyShutdownKeeps ==
    ASSUME AccountsInv, EmergencyShutdown
    PROVE  AccountsInv' /\ LocksKept /\ OnlyParChanged
<1>1. /\ UNCHANGED <<slices, totalDeployed, balance, maxLimit>> /\ UNCHANGED tokenVars
      /\ cash' = 0 /\ redeemed' = redeemed /\ swept' = swept + cash
      /\ paused' = TRUE /\ UNCHANGED <<fundableAt, drawdownsPaused>>
  BY DEF EmergencyShutdown, Sweep, clVars, limits, accounting
<1>2. /\ SwitchesOk /\ maxLimit \in Limits
      /\ cash \in Nat /\ redeemed \in Nat /\ swept \in Nat
  BY PoolFacts DEF AccountsInv, PoolInv, PoolTypeOK
<1>3. SwitchesOk'
  BY <1>1, <1>2 DEF SwitchesOk
<1>4. /\ cash' \in Nat /\ redeemed' \in Nat /\ swept' \in Nat
      /\ cash' + redeemed' + swept' = cash + redeemed + swept
  BY <1>1, <1>2
<1> QED BY <1>1, <1>2, <1>3, <1>4, OnlySwitched

LEMMA CreditLineOnlyKeeps ==
    ASSUME AccountsInv, CreditLineOnly
    PROVE  AccountsInv' /\ LocksKept /\ OnlyParChanged
<1>1. UNCHANGED <<ledger, fundableAt, switches, tokenVars>>
  BY DEF CreditLineOnly, poolVars
<1>2. balance' = balance /\ maxLimit' \in AdminLimits \cup {maxLimit}
  <2>1. CASE Tick
    BY <2>1 DEF Tick, limits, accounting
  <2>2. CASE \E amount \in Donations : Receive(amount)
    BY <2>2 DEF Receive, limits, accounting
  <2>3. ASSUME NEW limit \in AdminLimits,
               \/ SetLimit(limit)
               \/ SetMaxLimit(limit)
               \/ \E newTerms \in Terms : Migrate(newTerms, limit)
        PROVE  balance' = balance /\ maxLimit' \in AdminLimits \cup {maxLimit}
    BY <2>3 DEF SetLimit, SetMaxLimit, Migrate, accounting
  <2> QED BY <2>1, <2>2, <2>3 DEF CreditLineOnly
<1>3. UNCHANGED <<slices, totalDeployed, cash, redeemed, swept>> /\ UNCHANGED tokenVars
  BY <1>1 DEF ledger
<1>4. /\ SwitchesOk /\ maxLimit \in Limits
      /\ cash \in Nat /\ redeemed \in Nat /\ swept \in Nat
  BY PoolFacts DEF AccountsInv, PoolInv, PoolTypeOK
<1>5. SwitchesOk' /\ maxLimit' \in Limits
  BY <1>1, <1>2, <1>4, TranchedPoolAssumption DEF SwitchesOk, switches
<1> QED BY <1>2, <1>3, <1>4, <1>5, OnlySwitched

\* A new slice comes after slices that are all locked.
LEMMA NextSliceKeeps ==
    ASSUME AccountsInv, NEW time \in FundableTimes, InitializeNextSlice(time)
    PROVE  AccountsInv' /\ LocksKept /\ OnlyParChanged
<1> DEFINE n == Len(slices) + 1
<1>1. PoolInv
  BY DEF AccountsInv
<1>2. /\ slices \in Seq(SliceType) /\ Len(slices) \in 1..MaxSlices
      /\ DOMAIN slices = 1..Len(slices) /\ Len(slices) \in Nat
      /\ cash \in Nat /\ redeemed \in Nat /\ swept \in Nat
      /\ totalDeployed \in Nat /\ MaxSlices \in Nat
      /\ Current \in DOMAIN slices /\ Current = Len(slices)
  BY <1>1, PoolFacts, TranchedPoolAssumption
<1>3. /\ slices' = Append(slices, NewSlice) /\ Len(slices) < MaxSlices
      /\ isLocked(slices[Current])
      /\ fundableAt' \in FundableTimes /\ UNCHANGED switches
      /\ UNCHANGED <<totalDeployed, cash, redeemed, swept, balance, maxLimit>>
      /\ UNCHANGED <<tokens, lastTokenId, totalMinted, totalPrincipalRedeemed>>
  BY DEF InitializeNextSlice, Locked, clVars, limits, accounting, tokenVars
<1>4. /\ slices' \in Seq(SliceType) /\ Len(slices') = n
      /\ DOMAIN slices' = DOMAIN slices \cup {n} /\ n \notin DOMAIN slices
      /\ \A j \in DOMAIN slices : slices'[j] = slices[j]
      /\ slices'[n] = NewSlice
      /\ DeployedIn(slices') = DeployedIn(slices)
      /\ DepositedIn(slices') = DepositedIn(slices)
      /\ EntitledIn(slices') = EntitledIn(slices)
  BY <1>2, <1>3, SliceAdded
<1>5. \A j \in DOMAIN slices' : InOrder(slices'[j], j = Len(slices'))
  <2>1. InOrder(NewSlice, TRUE)
    BY NewSliceFacts DEF InOrder
  <2>2. ASSUME NEW j \in DOMAIN slices
        PROVE  InOrder(slices[j], FALSE)
    <3>1. InOrder(slices[j], j = Len(slices))
      BY <1>1 DEF PoolInv
    <3> QED BY <1>2, <1>3, <3>1 DEF InOrder
  <2>3. \A j \in DOMAIN slices : j # n
    BY <1>4
  <2> HIDE DEF n
  <2> QED BY <1>4, <2>1, <2>2, <2>3
<1>6. TokensOk'
  <2>1. TokensOk
    BY <1>1 DEF PoolInv, PoolTypeOK
  <2>2. TokenType \subseteq TokenType'
    BY <1>4 DEF TokenType
  <2> QED BY <1>3, <2>1, <2>2 DEF TokensOk
<1>7. \A j \in DOMAIN slices', kind \in Kinds :
          PrincipalIn(tokens', <<j, kind>>) <= slices'[j][kind].principalDeposited
  <2>1. ASSUME NEW j \in DOMAIN slices, NEW kind \in Kinds
        PROVE  PrincipalIn(tokens', <<j, kind>>) <= slices'[j][kind].principalDeposited
    <3>1. PrincipalIn(tokens, <<j, kind>>) <= slices[j][kind].principalDeposited
      BY <1>1 DEF PoolInv
    <3> QED BY <1>3, <1>4, <3>1
  <2>2. ASSUME NEW kind \in Kinds
        PROVE  PrincipalIn(tokens', <<n, kind>>) <= slices'[n][kind].principalDeposited
    <3>1. \A id \in DOMAIN tokens : tokens[id].tranche # <<n, kind>>
      BY <1>1, <1>4, TokenFacts
    <3>2. {id \in DOMAIN tokens : tokens[id].tranche = <<n, kind>>} = {}
      BY <3>1
    <3>3. PrincipalIn(tokens, <<n, kind>>) = 0
      BY <3>2, SumOfNone DEF PrincipalIn
    <3>4. NewSlice[kind].principalDeposited = 0
      BY NewSliceFacts
    <3> HIDE DEF n
    <3> QED BY <1>3, <1>4, <3>3, <3>4
  <2> HIDE DEF n
  <2> QED BY <1>4, <2>1, <2>2
<1>8. LedgerOk'
  BY <1>2, <1>3, <1>4 DEF LedgerOk
<1>9. SwitchesOk'
  <2>1. SwitchesOk
    BY <1>1 DEF PoolInv, PoolTypeOK
  <2> QED BY <1>3, <2>1 DEF SwitchesOk, switches
<1>10. PoolInv'
  <2>1. maxLimit \in Limits /\ totalDeployed = DeployedIn(slices)
    BY <1>1 DEF PoolInv
  <2> QED BY <1>3, <1>4, <1>5, <1>6, <1>7, <1>8, <1>9, <2>1 DEF PoolInv, PoolTypeOK
<1>11. DepositsMatchTokens' /\ EntitlementsFunded'
  BY <1>3, <1>4 DEF AccountsInv, DepositsMatchTokens, EntitlementsFunded
<1>12. DeploymentCoversLoan'
  BY <1>2, <1>3, <1>4 DEF AccountsInv, DeploymentCoversLoan
<1>13. LocksKept
  BY <1>4 DEF LocksKept
<1>14. OnlyParChanged
  BY <1>4, NewSliceFacts DEF OnlyParChanged
<1> QED BY <1>10, <1>11, <1>12, <1>13, <1>14 DEF AccountsInv

\* The slice that is drawn from, locked by the draw when it was not before.
DrawSlice == IF Locked THEN slices[Current] ELSE LockSlice(slices[Current])

LEMMA DrawSliceFacts ==
    ASSUME PoolInv, ScheduleInv, Locked \/ CanLock(slices[Current])
    PROVE  /\ DrawSlice \in SliceType /\ isLocked(DrawSlice)
           /\ DrawSlice.junior.lockedUntil > 0
           /\ DrawSlice.principalDeployed = slices[Current].principalDeployed
           /\ Deposited(DrawSlice) = Deposited(slices[Current])
           /\ SliceEntitlement(DrawSlice) = SliceEntitlement(slices[Current])
           /\ AmountAvailable(DrawSlice) = AmountAvailable(slices[Current])
           /\ \A kind \in Kinds :
                 /\ DrawSlice[kind].principalDeposited
                      = slices[Current][kind].principalDeposited
                 /\ DrawSlice[kind].principalSharePrice
                      = slices[Current][kind].principalSharePrice
           /\ Locked => DrawSlice = slices[Current]
<1> DEFINE s == slices[Current]
<1>1. s \in SliceType /\ InOrder(s, Current = Len(slices))
  BY PoolFacts DEF PoolInv
<1> HIDE DEF s
<1>2. CASE Locked
  <2>1. DrawSlice = s /\ isLocked(s)
    BY <1>2 DEF DrawSlice, Locked, s
  <2>2. s.junior.lockedUntil > 0
    BY <1>1, <2>1 DEF InOrder
  <2> QED BY <1>1, <2>1, <2>2 DEF s
<1>3. CASE ~Locked
  <2>1. DrawSlice = LockSlice(s)
    BY <1>3 DEF DrawSlice, s
  <2>2. OnlyLocked(s, LockSlice(s)) /\ isLocked(LockSlice(s))
    BY <1>1, LockSliceFacts
  <2>3. /\ DrawSlice \in SliceType /\ isLocked(DrawSlice)
        /\ DrawSlice.junior.lockedUntil > 0
        /\ DrawSlice.principalDeployed = s.principalDeployed
        /\ Deposited(DrawSlice) = Deposited(s)
        /\ SliceEntitlement(DrawSlice) = SliceEntitlement(s)
        /\ \A kind \in Kinds :
              /\ DrawSlice[kind].principalDeposited = s[kind].principalDeposited
              /\ DrawSlice[kind].principalSharePrice = s[kind].principalSharePrice
    BY <2>1, <2>2 DEF OnlyLocked
  <2>4. AmountAvailable(DrawSlice) = AmountAvailable(s)
    BY <2>3 DEF AmountAvailable, Kinds
  <2> QED BY <1>3, <2>3, <2>4 DEF s
<1> QED BY <1>2, <1>3

\* What drawdown leaves alone of the line, and what it sets.
LEMMA DrawdownFacts ==
    ASSUME NEW amount, NEW limit, Drawdown(amount, limit)
    PROVE  /\ balance' = balance + amount /\ amount > 0
           /\ UNCHANGED <<now, terms, maxLimit, usdc>>
BY DEF Drawdown, updateCreditLineAccounting

LEMMA PoolDrawdownFacts ==
    ASSUME PoolInv, ScheduleInv, NEW amount \in DrawAmounts, PoolDrawdown(amount)
    PROVE  /\ amount \in Nat \ {0} /\ amount <= cash
           /\ amount <= AmountAvailable(slices[Current])
           /\ Deposited(DrawSlice) > 0
           /\ balance' = balance + amount /\ maxLimit' = maxLimit
           /\ UNCHANGED <<fundableAt, switches, redeemed, swept>> /\ UNCHANGED tokenVars
           /\ totalDeployed' = totalDeployed + amount /\ cash' = cash - amount
           /\ slices' = [slices EXCEPT ![Current] = DrawFrom(DrawSlice, amount)]
           /\ Drawn(DrawSlice, DrawFrom(DrawSlice, amount), amount)
           /\ NoPriceRises(DrawSlice, DrawFrom(DrawSlice, amount))
           /\ Locked \/ CanLock(slices[Current])
<1>1. /\ Locked \/ CanLock(slices[Current])
      /\ amount <= AmountAvailable(DrawSlice) /\ amount <= cash
      /\ Drawdown(amount, IF Locked THEN currentLimit ELSE LimitOnLock)
      /\ Deposited(DrawSlice) > 0
      /\ NoPriceRises(DrawSlice, DrawFrom(DrawSlice, amount))
      /\ slices' = [slices EXCEPT ![Current] = DrawFrom(DrawSlice, amount)]
      /\ totalDeployed' = totalDeployed + amount /\ cash' = cash - amount
      /\ UNCHANGED <<fundableAt, switches, redeemed, swept>> /\ UNCHANGED tokenVars
  BY DEF PoolDrawdown, DrawSlice
<1>2. /\ DrawSlice \in SliceType
      /\ AmountAvailable(DrawSlice) = AmountAvailable(slices[Current])
  BY <1>1, DrawSliceFacts
<1>3. balance' = balance + amount /\ amount > 0 /\ maxLimit' = maxLimit
  BY <1>1, DrawdownFacts
<1>4. amount \in Nat
  BY TranchedPoolAssumption, CreditLineAssumption
<1>5. Drawn(DrawSlice, DrawFrom(DrawSlice, amount), amount)
  BY <1>1, <1>2, <1>4, DrawFacts
<1> QED BY <1>1, <1>2, <1>3, <1>4, <1>5

LEMMA DrawKeeps ==
    ASSUME AccountsInv, ScheduleInv, NEW amount \in DrawAmounts, PoolDrawdown(amount)
    PROVE  AccountsInv' /\ LocksKept
<1> DEFINE c == Current
           slice == DrawFrom(DrawSlice, amount)
<1>1. PoolInv
  BY DEF AccountsInv
<1>2. /\ c \in DOMAIN slices /\ c = Len(slices) /\ slices[c] \in SliceType
      /\ cash \in Nat /\ redeemed \in Nat /\ swept \in Nat
      /\ DepositedIn(slices) \in Nat /\ EntitledIn(slices) \in Nat
      /\ DeployedIn(slices) \in Nat /\ totalDeployed \in Nat
  BY <1>1, PoolFacts
<1>3. /\ amount \in Nat \ {0} /\ amount <= cash
      /\ balance' = balance + amount /\ maxLimit' = maxLimit
      /\ UNCHANGED <<fundableAt, switches, redeemed, swept>> /\ UNCHANGED tokenVars
      /\ totalDeployed' = totalDeployed + amount /\ cash' = cash - amount
      /\ slices' = [slices EXCEPT ![c] = slice]
      /\ Drawn(DrawSlice, slice, amount)
      /\ Locked \/ CanLock(slices[Current])
  BY <1>1, PoolDrawdownFacts
<1>4. /\ DrawSlice \in SliceType /\ isLocked(DrawSlice)
      /\ DrawSlice.junior.lockedUntil > 0
      /\ DrawSlice.principalDeployed = slices[c].principalDeployed
      /\ Deposited(DrawSlice) = Deposited(slices[c])
      /\ SliceEntitlement(DrawSlice) = SliceEntitlement(slices[c])
      /\ \A kind \in Kinds :
            DrawSlice[kind].principalDeposited = slices[c][kind].principalDeposited
      /\ isLocked(slices[c]) => DrawSlice = slices[c]
  BY <1>1, <1>3, DrawSliceFacts DEF Locked
<1> HIDE DEF c, slice
<1>5. /\ slice \in SliceType
      /\ slice.principalDeployed = slices[c].principalDeployed + amount
      /\ Deposited(slice) = Deposited(slices[c])
      /\ SliceEntitlement(slice) + amount <= SliceEntitlement(slices[c])
      /\ \A kind \in Kinds :
            /\ slice[kind].principalDeposited = slices[c][kind].principalDeposited
            /\ slice[kind].lockedUntil = DrawSlice[kind].lockedUntil
  BY <1>3, <1>4 DEF Drawn
<1>6. isLocked(slice) /\ slice.junior.lockedUntil > 0
  BY <1>4, <1>5 DEF Kinds, isLocked
<1>7. InOrder(slice, c = Len(slices))
  BY <1>6 DEF InOrder
<1>8. isLocked(slices[c]) => \A kind \in Kinds :
              /\ slice[kind].lockedUntil = slices[c][kind].lockedUntil
              /\ slice[kind].principalDeposited = slices[c][kind].principalDeposited
  BY <1>4, <1>5
<1>9. /\ slices' \in Seq(SliceType) /\ Len(slices') = Len(slices)
      /\ DOMAIN slices' = DOMAIN slices /\ slices'[c] = slice
      /\ \A j \in DOMAIN slices \ {c} : slices'[j] = slices[j]
      /\ \A j \in DOMAIN slices' : InOrder(slices'[j], j = Len(slices'))
      /\ LocksKept
      /\ DeployedIn(slices') = DeployedIn(slices) - slices[c].principalDeployed
                                      + slice.principalDeployed
      /\ DepositedIn(slices') = DepositedIn(slices) - Deposited(slices[c])
                                       + Deposited(slice)
      /\ EntitledIn(slices') = EntitledIn(slices) - SliceEntitlement(slices[c])
                                      + SliceEntitlement(slice)
  BY <1>1, <1>2, <1>3, <1>5, <1>7, <1>8, OneSliceChanged
<1>10. /\ DeployedIn(slices') = DeployedIn(slices) + amount
       /\ DepositedIn(slices') = DepositedIn(slices)
       /\ EntitledIn(slices') + amount <= EntitledIn(slices)
  <2>1. /\ slices[c].principalDeployed \in Nat /\ Deposited(slices[c]) \in Nat
        /\ SliceEntitlement(slices[c]) \in Nat /\ SliceEntitlement(slice) \in Nat
    BY <1>2, <1>5, SliceFacts
  <2>2. DeployedIn(slices') = DeployedIn(slices) + amount
    BY <1>2, <1>3, <1>5, <1>9, <2>1
  <2>3. DepositedIn(slices') = DepositedIn(slices)
    BY <1>2, <1>5, <1>9, <2>1
  <2>4. EntitledIn(slices') + amount <= EntitledIn(slices)
    <3>1. PICK e \in Nat, before \in Nat, after \in Nat :
            /\ e = EntitledIn(slices) /\ before = SliceEntitlement(slices[c])
            /\ after = SliceEntitlement(slice)
      BY <1>2, <2>1
    <3>2. after + amount <= before /\ EntitledIn(slices') = e - before + after
      BY <1>5, <1>9, <3>1
    <3> QED BY <1>3, <3>1, <3>2
  <2> QED BY <2>2, <2>3, <2>4
<1>11. \A j \in DOMAIN slices, kind \in Kinds :
          slices'[j][kind].principalDeposited = slices[j][kind].principalDeposited
  <2> SUFFICES ASSUME NEW j \in DOMAIN slices, NEW kind \in Kinds
      PROVE slices'[j][kind].principalDeposited = slices[j][kind].principalDeposited
    OBVIOUS
  <2>1. CASE j = c
    BY <1>5, <1>9, <2>1
  <2>2. CASE j # c
    BY <1>9, <2>2
  <2> QED BY <2>1, <2>2
<1>12. PoolInv'
  <2>1. totalDeployed' = DeployedIn(slices') /\ maxLimit' \in Limits
    BY <1>1, <1>3, <1>10 DEF PoolInv
  <2>2. cash' \in Nat /\ redeemed' \in Nat /\ swept' \in Nat
    BY <1>2, <1>3
  <2>3. UNCHANGED <<fundableAt, switches>> /\ UNCHANGED tokenVars
    BY <1>3
  <2> QED BY <1>1, <1>9, <1>11, <2>1, <2>2, <2>3, SlicesReplaced
<1>13. DepositsMatchTokens'
  BY <1>3, <1>10 DEF AccountsInv, DepositsMatchTokens, tokenVars
<1>14. EntitlementsFunded'
  <2>1. EntitledIn(slices) <= cash + redeemed + swept
    BY DEF AccountsInv, EntitlementsFunded
  <2>2. EntitledIn(slices') \in Nat
    <3>1. PICK after \in Seq(SliceType) : after = slices'
      BY <1>9
    <3> QED BY <3>1, TotalsAreNatural
  <2> QED BY <1>2, <1>3, <1>10, <2>1, <2>2 DEF EntitlementsFunded
<1>15. DeploymentCoversLoan'
  <2>1. balance \in Nat
    BY DEF ScheduleInv, TypeOK
  <2>2. /\ totalDeployed = DeployedIn(slices) /\ totalDeployed >= balance
        /\ Len(slices) = 1 => totalDeployed = balance
    BY DEF AccountsInv, DeploymentCoversLoan
  <2> QED BY <1>2, <1>3, <1>9, <1>10, <2>1, <2>2 DEF DeploymentCoversLoan
<1> QED BY <1>9, <1>12, <1>13, <1>14, <1>15 DEF AccountsInv

\* A payment, of what the line held and what was sent with it: all slices are locked,
\* and what the line returned is divided among them.
PoolPayment(payment) ==
    /\ ~paused
    /\ Locked
    /\ totalDeployed > 0
    /\ assess(payment)
    /\ Distribute(payment)
    /\ UNCHANGED <<now, terms, limits>>
    /\ UNCHANGED <<fundableAt, switches, redeemed, swept, tokenVars>>

LEMMA PaymentIs ==
    ASSUME ScheduleInv, PoolAssess \/ \E amount \in Amounts : PoolPay(amount)
    PROVE  \E payment \in Nat : payment >= usdc /\ PoolPayment(payment)
<1>1. usdc \in Nat /\ Amounts \subseteq Nat
  BY CreditLineAssumption DEF ScheduleInv, TypeOK
<1>2. CASE PoolAssess
  <2>1. PoolPayment(usdc)
    BY <1>2 DEF PoolAssess, PoolPayment, Assess
  <2> QED BY <1>1, <2>1
<1>3. ASSUME NEW amount \in Amounts, PoolPay(amount)
      PROVE  \E payment \in Nat : payment >= usdc /\ PoolPayment(payment)
  <2>1. usdc + amount \in Nat /\ usdc + amount >= usdc
    BY <1>1
  <2>2. PoolPayment(usdc + amount)
    BY <1>3 DEF PoolPay, PoolPayment, Pay
  <2> QED BY <2>1, <2>2
<1> QED BY <1>2, <1>3

LEMMA AccruedSlicesFacts ==
    ASSUME NEW interest \in Nat, slices \in Seq(SliceType), totalDeployed \in Nat \ {0}
    PROVE  Accruing(slices, AccruedSlices(interest))
<1>1. AccruedSlices(interest) = WithInterest(slices, interest, totalDeployed)
  BY DEF AccruedSlices, WithInterest, scaleForSlice
<1> QED BY <1>1, AccruedFacts

\* What a payment has done to the ledger, whether some of it was applied or not.
PartRepaid(payment, i) == RepaidTo(payment, slices[i])
PrincipalAccruedIn(i) ==
    SlicePrincipalAccrued(slices[i], totalDeployed - balance' + principalOwed', totalDeployed)

Settled(payment, parts, reserve) ==
    /\ slices' \in Seq(SliceType)
    /\ DOMAIN slices' = DOMAIN slices /\ Len(slices') = Len(slices)
    /\ \A i \in DOMAIN slices :
          /\ PartRepaid(payment, i) \in Nat
          /\ Repaid(slices[i], slices'[i], PrincipalAccruedIn(i), PartRepaid(payment, i))
    /\ parts \in 0..PrincipalPayment(payment)
    /\ Len(slices) = 1 => parts = PrincipalPayment(payment)
    /\ totalDeployed' = totalDeployed - parts
    /\ DeployedIn(slices') = totalDeployed - parts
    /\ DepositedIn(slices') = DepositedIn(slices)
    /\ reserve \in 0..Collected(payment)
    /\ cash' = cash + Collected(payment) - reserve
    /\ EntitledIn(slices') + reserve <= EntitledIn(slices) + Collected(payment)
    /\ Collected(payment) # 0 => CanApply(slices, totalDeployed, balance')
    /\ Collected(payment) = 0 =>
          \A i \in DOMAIN slices, kind \in Kinds : slices'[i][kind] = slices[i][kind]

\* None of the payment was applied.
LEMMA NotCollected ==
    ASSUME PoolInv, ScheduleInv, NEW payment \in Nat, PoolPayment(payment),
           Collected(payment) = 0
    PROVE  Settled(payment, 0, 0)
<1> DEFINE interest == totalInterestAccrued' - totalInterestAccrued
<1>1. /\ slices \in Seq(SliceType) /\ totalDeployed \in Nat \ {0}
      /\ DOMAIN slices = 1..Len(slices) /\ Len(slices) \in Nat
      /\ cash \in Nat /\ EntitledIn(slices) \in Nat
      /\ \A i \in DOMAIN slices : slices[i] \in SliceType
  BY PoolFacts DEF PoolPayment
<1>2. /\ interest \in Nat /\ PrincipalPayment(payment) = 0
  BY PaymentFacts DEF PoolPayment
<1>3. slices' = AccruedSlices(interest) /\ UNCHANGED <<totalDeployed, cash>>
  BY DEF PoolPayment, Distribute
<1> HIDE DEF interest
<1>4. Accruing(slices, slices')
  BY <1>1, <1>2, <1>3, AccruedSlicesFacts
<1>5. ASSUME NEW i \in DOMAIN slices
      PROVE  /\ PartRepaid(payment, i) = 0
             /\ Repaid(slices[i], slices'[i], PrincipalAccruedIn(i), 0)
  <2>1. slices[i].principalDeployed \in Nat
    BY <1>1, SliceFacts
  <2>2. PartRepaid(payment, i) = 0
    <3>1. PICK d \in Nat, t \in Nat \ {0} : d = slices[i].principalDeployed /\ t = totalDeployed
      BY <1>1, <2>1
    <3>2. PartRepaid(payment, i) = scaleByFraction(0, d, t)
      BY <1>2, <3>1 DEF PartRepaid, RepaidTo, scaleForSlice
    <3>3. scaleByFraction(0, d, t) \in Nat /\ scaleByFraction(0, d, t) * t <= 0 * d
      BY ScaleFacts
    <3>4. PICK n \in Nat : n = scaleByFraction(0, d, t)
      BY <3>3
    <3>5. n * t <= 0 * t
      BY <3>3, <3>4
    <3>6. n <= 0
      BY <3>5, Cancel
    <3> QED BY <3>2, <3>4, <3>6
  <2>3. /\ slices'[i] \in SliceType /\ slices'[i].principalDeployed = slices[i].principalDeployed
        /\ Deposited(slices'[i]) = Deposited(slices[i])
        /\ \A kind \in Kinds : slices'[i][kind] = slices[i][kind]
    BY <1>4, SlicesFinite DEF Accruing
  <2>4. \A kind \in Kinds : slices[i][kind].principalSharePrice \in Nat
    BY <1>1, KindFacts
  <2>5. \A kind \in Kinds :
            slices'[i][kind].principalSharePrice <= slices[i][kind].principalSharePrice
    BY <2>3, <2>4
  <2>6. slices'[i].principalDeployed = slices[i].principalDeployed - 0
    BY <2>1, <2>3
  <2> QED BY <2>2, <2>3, <2>5, <2>6 DEF Repaid
<1>6. totalDeployed = DeployedIn(slices)
  BY DEF PoolInv
<1> QED BY <1>1, <1>2, <1>3, <1>4, <1>5, <1>6 DEF Settled, Accruing

\* Some of the payment was applied.
LEMMA PaymentApplied ==
    ASSUME AccountsInv, ScheduleInv, ScheduleInv', NEW payment \in Nat, PoolPayment(payment),
           Collected(payment) # 0
    PROVE  \E parts, reserve \in Nat : Settled(payment, parts, reserve)
<1> DEFINE interest == totalInterestAccrued' - totalInterestAccrued
           pool == AccruedSlices(interest)
           i0 == InterestPayment(payment)
           p0 == PrincipalPayment(payment)
           r0 == PaymentRemaining(payment)
           total == totalDeployed
           left == balance'
           owed == principalOwed'
           part(i) == scaleByFraction(p0, pool[i].principalDeployed, total)
           parts == SumFunctionOnSet([i \in DOMAIN pool |-> part(i)], DOMAIN pool)
           r == applyToAllSlices(pool, i0, p0 + r0, total, left, owed)
           after == [i \in DOMAIN pool |-> [r.slices[i] EXCEPT !.principalDeployed = @ - part(i)]]
<1>1. /\ slices \in Seq(SliceType) /\ total \in Nat \ {0}
      /\ cash \in Nat /\ EntitledIn(slices) \in Nat
      /\ total = DeployedIn(slices)
      /\ \A i \in DOMAIN slices : slices[i] \in SliceType
  BY PoolFacts DEF PoolPayment, AccountsInv, PoolInv
<1>2. /\ interest \in Nat /\ i0 \in Nat /\ p0 \in 0..balance /\ r0 \in Nat
      /\ left = balance - p0 /\ i0 + p0 + r0 = payment /\ Collected(payment) = payment
  BY PaymentFacts DEF PoolPayment
<1>3. balance \in Nat /\ left \in Nat /\ owed \in Nat
  BY DEF ScheduleInv, TypeOK
<1>4. p0 \in Nat
  BY <1>2, <1>3
<1>5. /\ CanApply(pool, total, left)
      /\ \A i \in DOMAIN slices : CanSub(slices[i].principalDeployed, RepaidTo(payment, slices[i]))
      /\ slices' = [i \in DOMAIN slices |->
                      [r.slices[i] EXCEPT !.principalDeployed = @ - RepaidTo(payment, slices[i])]]
      /\ totalDeployed' = total - SumOfSlices(slices, LAMBDA i : RepaidTo(payment, slices[i]))
      /\ cash' = cash + Collected(payment) - r.reserve
  BY DEF PoolPayment, Distribute
<1>6. Accruing(slices, pool)
  <2> HIDE DEF interest
  <2> QED BY <1>1, <1>2, AccruedSlicesFacts
<1> HIDE DEF interest, pool, i0, p0, r0, total, left, owed
<1>7. /\ pool \in Seq(SliceType) /\ DOMAIN pool = DOMAIN slices /\ Len(pool) = Len(slices)
      /\ DeployedIn(pool) = total
      /\ DepositedIn(pool) = DepositedIn(slices) /\ EntitledIn(pool) = EntitledIn(slices)
  BY <1>1, <1>6 DEF Accruing
<1>8. \A i \in DOMAIN slices :
         /\ slices[i].principalDeployed = pool[i].principalDeployed
         /\ Deposited(slices[i]) = Deposited(pool[i])
         /\ \A kind \in Kinds : pool[i][kind] = slices[i][kind]
         /\ part(i) = RepaidTo(payment, slices[i])
  BY <1>6 DEF Accruing, RepaidTo, scaleForSlice, p0, total
<1>9. \A i \in DOMAIN pool : part(i) <= pool[i].principalDeployed
  BY <1>5, <1>7, <1>8 DEF CanSub
<1>10. Applied(pool, i0, p0, r0, total, left, owed)
  BY <1>1, <1>2, <1>3, <1>4, <1>5, <1>7, <1>9, RepaidFacts
<1>11. /\ after \in Seq(SliceType) /\ DOMAIN after = DOMAIN pool /\ Len(after) = Len(pool)
       /\ \A i \in DOMAIN pool : part(i) \in Nat
       /\ \A i \in DOMAIN pool : Repaid(pool[i], after[i],
              SlicePrincipalAccrued(pool[i], total - left + owed, total), part(i))
       /\ parts \in 0..p0
       /\ Len(pool) = 1 => parts = p0
       /\ DeployedIn(after) = total - parts
       /\ DepositedIn(after) = DepositedIn(pool)
       /\ r.reserve \in 0..(i0 + p0 + r0)
       /\ EntitledIn(after) + r.reserve <= EntitledIn(pool) + i0 + p0 + r0
  BY <1>10 DEF Applied
<1>12. slices' = after
  <2> HIDE DEF part
  <2> QED BY <1>5, <1>7, <1>8
<1>13. SumOfSlices(slices, LAMBDA i : RepaidTo(payment, slices[i])) = parts
  <2> DEFINE f == [i \in DOMAIN slices |-> RepaidTo(payment, slices[i])]
  <2>1. f = [i \in DOMAIN pool |-> part(i)] /\ DOMAIN f = DOMAIN pool
    BY <1>7, <1>8
  <2>2. SumOfSlices(slices, LAMBDA i : RepaidTo(payment, slices[i])) = SumFunction(f)
    BY DEF SumOfSlices
  <2> HIDE DEF f
  <2> QED BY <2>1, <2>2 DEF SumFunction
<1> HIDE DEF after, r, parts
<1>14. \A i \in DOMAIN slices :
          /\ PartRepaid(payment, i) \in Nat
          /\ Repaid(slices[i], slices'[i], PrincipalAccruedIn(i), PartRepaid(payment, i))
  <2> SUFFICES ASSUME NEW i \in DOMAIN slices
      PROVE  /\ PartRepaid(payment, i) \in Nat
             /\ Repaid(slices[i], slices'[i], PrincipalAccruedIn(i), PartRepaid(payment, i))
    OBVIOUS
  <2>1. PartRepaid(payment, i) = part(i)
    BY <1>8 DEF PartRepaid
  <2> DEFINE a == SlicePrincipalAccrued(pool[i], total - left + owed, total)
  <2>2. PrincipalAccruedIn(i) = a
    BY <1>8 DEF PrincipalAccruedIn, SlicePrincipalAccrued, total, left, owed
  <2>3. part(i) \in Nat /\ Repaid(pool[i], slices'[i], a, part(i))
    BY <1>7, <1>11, <1>12
  <2> HIDE DEF part, a
  <2>4. Repaid(slices[i], slices'[i], a, part(i))
    BY <1>8, <2>3 DEF Repaid
  <2> QED BY <2>1, <2>2, <2>3, <2>4
<1>15. CanApply(slices, totalDeployed, balance')
  BY <1>5, <1>7, <1>8 DEF CanApply, total, left
<1>16. parts \in Nat /\ r.reserve \in Nat
  BY <1>2, <1>4, <1>11
<1>17. EntitledIn(slices') + r.reserve <= EntitledIn(slices) + Collected(payment)
  <2>1. PICK e \in Nat : e = EntitledIn(slices)
    BY <1>1
  <2>2. EntitledIn(pool) + i0 + p0 + r0 = e + payment
    BY <1>2, <1>4, <1>7, <2>1
  <2> QED BY <1>2, <1>11, <1>12, <2>1, <2>2
<1>18. Settled(payment, parts, r.reserve)
  <2>1. parts \in 0..PrincipalPayment(payment) /\ (Len(slices) = 1 => parts = PrincipalPayment(payment))
    BY <1>7, <1>11 DEF p0
  <2>2. totalDeployed' = totalDeployed - parts /\ DeployedIn(slices') = totalDeployed - parts
    BY <1>5, <1>11, <1>12, <1>13 DEF total
  <2>3. r.reserve \in 0..Collected(payment)
    BY <1>2, <1>11
  <2>4. /\ slices' \in Seq(SliceType)
        /\ DOMAIN slices' = DOMAIN slices /\ Len(slices') = Len(slices)
        /\ DepositedIn(slices') = DepositedIn(slices)
    BY <1>7, <1>11, <1>12
  <2> QED BY <1>5, <1>14, <1>15, <1>17, <2>1, <2>2, <2>3, <2>4 DEF Settled
<1> QED BY <1>16, <1>18

LEMMA PaymentSettled ==
    ASSUME AccountsInv, ScheduleInv, ScheduleInv', NEW payment \in Nat, PoolPayment(payment)
    PROVE  \E parts, reserve \in Nat : Settled(payment, parts, reserve)
<1>1. CASE Collected(payment) = 0
  <2>1. PoolInv
    BY DEF AccountsInv
  <2>2. Settled(payment, 0, 0)
    BY <1>1, <2>1, NotCollected
  <2> QED BY <2>2
<1>2. CASE Collected(payment) # 0
  BY <1>2, PaymentApplied
<1> QED BY <1>1, <1>2

LEMMA PaymentKeeps ==
    ASSUME AccountsInv, ScheduleInv, ScheduleInv', NEW payment \in Nat, PoolPayment(payment)
    PROVE  AccountsInv' /\ LocksKept
<1>1. PoolInv
  BY DEF AccountsInv
<1>2. /\ slices \in Seq(SliceType) /\ Current = Len(slices) /\ Len(slices) \in Nat
      /\ cash \in Nat /\ redeemed \in Nat /\ swept \in Nat /\ totalDeployed \in Nat
      /\ EntitledIn(slices) \in Nat
      /\ \A i \in DOMAIN slices : slices[i] \in SliceType
  BY <1>1, PoolFacts
<1>3. PICK parts \in Nat, reserve \in Nat : Settled(payment, parts, reserve)
  BY PaymentSettled
<1>4. /\ slices' \in Seq(SliceType)
      /\ DOMAIN slices' = DOMAIN slices /\ Len(slices') = Len(slices)
      /\ \A i \in DOMAIN slices :
            Repaid(slices[i], slices'[i], PrincipalAccruedIn(i), PartRepaid(payment, i))
      /\ parts <= PrincipalPayment(payment)
      /\ Len(slices) = 1 => parts = PrincipalPayment(payment)
      /\ totalDeployed' = totalDeployed - parts
      /\ DeployedIn(slices') = totalDeployed - parts
      /\ DepositedIn(slices') = DepositedIn(slices)
      /\ reserve <= Collected(payment)
      /\ cash' = cash + Collected(payment) - reserve
      /\ EntitledIn(slices') + reserve <= EntitledIn(slices) + Collected(payment)
  BY <1>3 DEF Settled
<1>5. /\ PrincipalPayment(payment) \in Nat /\ balance' = balance - PrincipalPayment(payment)
      /\ Collected(payment) \in Nat
  <2>1. /\ PrincipalPayment(payment) \in 0..balance
        /\ balance' = balance - PrincipalPayment(payment)
        /\ Collected(payment) # 0 => Collected(payment) = payment
    BY PaymentFacts DEF PoolPayment
  <2>2. balance \in Nat
    BY DEF ScheduleInv, TypeOK
  <2> QED BY <2>1, <2>2
<1>6. /\ UNCHANGED <<fundableAt, switches, redeemed, swept>> /\ UNCHANGED tokenVars
      /\ maxLimit' = maxLimit
  BY DEF PoolPayment, limits
<1>7. \A i \in DOMAIN slices : isLocked(slices[i]) /\ slices[i].junior.lockedUntil > 0
  <2> SUFFICES ASSUME NEW i \in DOMAIN slices
               PROVE  isLocked(slices[i]) /\ slices[i].junior.lockedUntil > 0
    OBVIOUS
  <2>1. InOrder(slices[i], i = Len(slices))
    BY <1>1 DEF PoolInv
  <2>2. isLocked(slices[Len(slices)])
    BY <1>2 DEF PoolPayment, Locked
  <2> QED BY <2>1, <2>2 DEF InOrder
<1>8. \A i \in DOMAIN slices, kind \in Kinds :
          /\ slices'[i][kind].lockedUntil = slices[i][kind].lockedUntil
          /\ slices'[i][kind].principalDeposited = slices[i][kind].principalDeposited
  BY <1>4 DEF Repaid
<1>9. \A i \in DOMAIN slices' : InOrder(slices'[i], i = Len(slices'))
  <2> SUFFICES ASSUME NEW i \in DOMAIN slices
               PROVE  InOrder(slices'[i], i = Len(slices'))
    BY <1>4
  <2>1. /\ slices'[i].senior.lockedUntil = slices[i].senior.lockedUntil
        /\ slices'[i].junior.lockedUntil = slices[i].junior.lockedUntil
    BY <1>8 DEF Kinds
  <2> QED BY <1>7, <2>1 DEF InOrder, isLocked
<1>10. LocksKept
  BY <1>8 DEF LocksKept
<1>11. cash' \in Nat /\ redeemed' \in Nat /\ swept' \in Nat
  BY <1>2, <1>4, <1>5, <1>6
<1>12. PoolInv'
  <2>1. totalDeployed' = DeployedIn(slices') /\ maxLimit' \in Limits
    BY <1>1, <1>4, <1>6 DEF PoolInv
  <2>2. \A i \in DOMAIN slices, kind \in Kinds :
            slices'[i][kind].principalDeposited = slices[i][kind].principalDeposited
    BY <1>8
  <2> QED BY <1>1, <1>4, <1>6, <1>9, <1>11, <2>1, <2>2, SlicesReplaced
<1>13. DepositsMatchTokens'
  BY <1>4, <1>6 DEF AccountsInv, DepositsMatchTokens, tokenVars
<1>14. EntitlementsFunded'
  <2>1. EntitledIn(slices) <= cash + redeemed + swept
    BY DEF AccountsInv, EntitlementsFunded
  <2>2. EntitledIn(slices') \in Nat
    <3>1. PICK after \in Seq(SliceType) : after = slices'
      BY <1>4
    <3> QED BY <3>1, TotalsAreNatural
  <2>3. PICK e \in Nat, after \in Nat, c \in Nat :
          e = EntitledIn(slices) /\ after = EntitledIn(slices') /\ c = Collected(payment)
    BY <1>2, <1>5, <2>2
  <2>4. after + reserve <= e + c /\ e <= cash + redeemed + swept /\ cash' = cash + c - reserve
    BY <1>4, <2>1, <2>3
  <2>5. after <= cash' + redeemed + swept
    <3>1. PICK k \in Nat, rest \in Nat : k = cash /\ rest = redeemed + swept
      BY <1>2
    <3>2. cash + redeemed + swept = k + rest /\ cash' + redeemed + swept = (k + c - reserve) + rest
      BY <1>2, <2>4, <3>1
    <3>3. after + reserve <= e + c /\ e <= k + rest
      BY <2>4, <3>2
    <3> HIDE <2>4
    <3>4. after <= (k + c - reserve) + rest
      BY <3>3
    <3> QED BY <3>2, <3>4
  <2> QED BY <1>6, <2>3, <2>5 DEF EntitlementsFunded
<1>15. DeploymentCoversLoan'
  <2>1. balance \in Nat
    BY DEF ScheduleInv, TypeOK
  <2>2. /\ totalDeployed >= balance
        /\ Len(slices) = 1 => totalDeployed = balance
    BY DEF AccountsInv, DeploymentCoversLoan
  <2> QED BY <1>2, <1>4, <1>5, <2>1, <2>2 DEF DeploymentCoversLoan
<1> QED BY <1>10, <1>12, <1>13, <1>14, <1>15 DEF AccountsInv

-----------------------------------------------------------------------------
(* The pool's invariants.                                                  *)

LEMMA AccountsInit == PoolInit => AccountsInv /\ ScheduleInv
<1> SUFFICES ASSUME PoolInit PROVE AccountsInv /\ ScheduleInv
  OBVIOUS
<1>1. ScheduleInv
  BY ScheduleInit DEF PoolInit
<1>2. /\ slices = <<NewSlice>> /\ totalDeployed = 0 /\ cash = 0 /\ redeemed = 0 /\ swept = 0
      /\ fundableAt \in FundableTimes /\ paused = FALSE /\ drawdownsPaused = FALSE
      /\ balance = 0 /\ maxLimit = InitialMaxLimit /\ TokensInit
  BY DEF PoolInit, Init
<1>3. slices \in Seq(SliceType) /\ Len(slices) = 1 /\ DOMAIN slices = {1}
  BY <1>2, NewSliceFacts
<1>4. DeployedIn(slices) = 0 /\ DepositedIn(slices) = 0 /\ EntitledIn(slices) = 0
  <2>1. <<>> \in Seq(SliceType) /\ slices = Append(<<>>, NewSlice) /\ DOMAIN <<>> = {}
    BY <1>2
  <2>2. /\ DeployedIn(slices) = DeployedIn(<<>>)
        /\ DepositedIn(slices) = DepositedIn(<<>>)
        /\ EntitledIn(slices) = EntitledIn(<<>>)
    BY <2>1, SliceAdded
  <2>3. DeployedIn(<<>>) = 0 /\ DepositedIn(<<>>) = 0 /\ EntitledIn(<<>>) = 0
    BY <2>1, LedgerTotals, SumOfNone
  <2> QED BY <2>2, <2>3
<1>5. /\ lastTokenId = 0 /\ totalMinted = 0 /\ totalPrincipalRedeemed = 0
      /\ DOMAIN tokens = {}
  BY <1>2 DEF TokensInit
<1>6. PoolTypeOK
  <2>1. LedgerOk
    BY <1>2, <1>3, TranchedPoolAssumption DEF LedgerOk
  <2>2. SwitchesOk
    BY <1>2 DEF SwitchesOk
  <2>3. TokensOk
    BY <1>5 DEF TokensOk
  <2> QED BY <2>1, <2>2, <2>3 DEF PoolTypeOK
<1>7. \A i \in DOMAIN slices : InOrder(slices[i], i = Len(slices))
  BY <1>2, <1>3, NewSliceFacts DEF InOrder
<1>8. \A i \in DOMAIN slices, kind \in Kinds :
          PrincipalIn(tokens, <<i, kind>>) <= slices[i][kind].principalDeposited
  <2> SUFFICES ASSUME NEW i \in DOMAIN slices, NEW kind \in Kinds
               PROVE  PrincipalIn(tokens, <<i, kind>>) <= slices[i][kind].principalDeposited
    OBVIOUS
  <2>1. {id \in DOMAIN tokens : tokens[id].tranche = <<i, kind>>} = {}
    BY <1>5
  <2>2. PrincipalIn(tokens, <<i, kind>>) = 0
    BY <2>1, SumOfNone DEF PrincipalIn
  <2>3. slices[i][kind].principalDeposited = 0
    BY <1>2, <1>3, NewSliceFacts
  <2> QED BY <2>2, <2>3
<1>9. PoolInv
  BY <1>2, <1>4, <1>6, <1>7, <1>8, TranchedPoolAssumption DEF PoolInv
<1>10. DepositsMatchTokens /\ EntitlementsFunded /\ DeploymentCoversLoan
  BY <1>2, <1>4, <1>5 DEF DepositsMatchTokens, EntitlementsFunded, DeploymentCoversLoan
<1> QED BY <1>1, <1>9, <1>10 DEF AccountsInv

\* A step is a draw, a payment, or leaves the loan, and all slices but those at par.
QuietPoolStep ==
    /\ OnlyParChanged
    /\ UNCHANGED <<totalDeployed, accounting>>
    /\ now' \in {now, now + 1}

LEMMA PoolStepKinds ==
    ASSUME AccountsInv, ScheduleInv, [PoolNext]_<<clVars, poolVars>>
    PROVE  \/ QuietPoolStep
           \/ \E amount \in DrawAmounts : PoolDrawdown(amount)
           \/ \E payment \in Nat : PoolPayment(payment)
<1>1. CASE \E kind \in Kinds, amount \in DepositAmounts : Deposit(kind, amount)
  BY <1>1, DepositKeeps, TranchedPoolAssumption DEF Deposit, clVars, QuietPoolStep
<1>2. CASE \E id \in DOMAIN tokens :
              \E amount \in DepositAmounts \cup {Redeemable(id)} : Withdraw(id, amount)
  BY <1>2, WithdrawKeeps DEF Withdraw, clVars, QuietPoolStep
<1>3. CASE \E id \in DOMAIN tokens : Burn(id)
  BY <1>3, BurnKeeps DEF Burn, ledger, clVars, QuietPoolStep
<1>4. CASE LockJuniorCapital
  BY <1>4, LockJuniorKeeps DEF LockJuniorCapital, clVars, QuietPoolStep
<1>5. CASE LockPool
  BY <1>5, LockPoolKeeps DEF LockPool, SetLimit, QuietPoolStep
<1>6. CASE \/ \E time \in FundableTimes : SetFundableAt(time)
           \/ \E value \in PauseValues : SetPaused(value) \/ SetDrawdownsPaused(value)
           \/ UNCHANGED <<clVars, poolVars>>
  <2>1. OnlyParChanged
    BY <1>6, SwitchKeeps
  <2> QED
    BY <1>6, <2>1 DEF SetFundableAt, SetPaused, SetDrawdownsPaused, poolVars, ledger, clVars,
                      QuietPoolStep
<1>7. CASE \E time \in FundableTimes : InitializeNextSlice(time)
  BY <1>7, NextSliceKeeps DEF InitializeNextSlice, clVars, QuietPoolStep
<1>8. CASE PoolAssess \/ \E amount \in Amounts : PoolPay(amount)
  BY <1>8, PaymentIs
<1>9. CASE EmergencyShutdown
  BY <1>9, EmergencyShutdownKeeps DEF EmergencyShutdown, Sweep, clVars, QuietPoolStep
<1>10. CASE CreditLineOnly
  <2>1. OnlyParChanged /\ totalDeployed' = totalDeployed
    BY <1>10, CreditLineOnlyKeeps DEF CreditLineOnly, poolVars, ledger
  <2> QED
    BY <1>10, <2>1 DEF CreditLineOnly, Tick, Receive, SetLimit, SetMaxLimit, Migrate,
                       QuietPoolStep
<1> QED
  BY <1>1, <1>2, <1>3, <1>4, <1>5, <1>6, <1>7, <1>8, <1>9, <1>10 DEF PoolNext

LEMMA AccountsStep ==
    ASSUME AccountsInv, ScheduleInv, [PoolNext]_<<clVars, poolVars>>
    PROVE  AccountsInv' /\ LocksKept /\ ScheduleInv'
<1>1. PoolInv
  BY DEF AccountsInv
<1>2. ScheduleInv'
  BY <1>1, LineStep, ScheduleStep
<1>3. AccountsInv' /\ LocksKept
  <2>1. CASE \E kind \in Kinds, amount \in DepositAmounts : Deposit(kind, amount)
    BY <2>1, DepositKeeps, TranchedPoolAssumption
  <2>2. CASE \E id \in DOMAIN tokens :
                \E amount \in DepositAmounts \cup {Redeemable(id)} : Withdraw(id, amount)
    BY <2>2, WithdrawKeeps
  <2>3. CASE \E id \in DOMAIN tokens : Burn(id)
    BY <2>3, BurnKeeps
  <2>4. CASE LockJuniorCapital
    BY <2>4, LockJuniorKeeps
  <2>5. CASE LockPool
    BY <2>5, LockPoolKeeps
  <2>6. CASE \/ \E time \in FundableTimes : SetFundableAt(time)
             \/ \E value \in PauseValues : SetPaused(value) \/ SetDrawdownsPaused(value)
             \/ UNCHANGED <<clVars, poolVars>>
    BY <2>6, SwitchKeeps
  <2>7. CASE \E time \in FundableTimes : InitializeNextSlice(time)
    BY <2>7, NextSliceKeeps
  <2>8. CASE \E amount \in DrawAmounts : PoolDrawdown(amount)
    BY <2>8, DrawKeeps
  <2>9. CASE PoolAssess \/ \E amount \in Amounts : PoolPay(amount)
    <3>1. PICK payment \in Nat : PoolPayment(payment)
      BY <2>9, PaymentIs
    <3> QED BY <1>2, <3>1, PaymentKeeps
  <2>10. CASE EmergencyShutdown
    BY <2>10, EmergencyShutdownKeeps
  <2>11. CASE CreditLineOnly
    BY <2>11, CreditLineOnlyKeeps
  <2> QED
    BY <2>1, <2>2, <2>3, <2>4, <2>5, <2>6, <2>7, <2>8, <2>9, <2>10, <2>11 DEF PoolNext
<1> QED BY <1>2, <1>3

LEMMA AccountsInvariant == PoolSpec => [](AccountsInv /\ ScheduleInv)
<1>1. AccountsInv /\ ScheduleInv /\ [PoolNext]_<<clVars, poolVars>>
        => (AccountsInv /\ ScheduleInv)'
  BY AccountsStep
<1> QED BY <1>1, AccountsInit, PTL DEF PoolSpec

\* TranchedPool does to its credit line only what the credit line's specification
\* allows, whose theorems therefore hold in a pool.
THEOREM PoolRefinesLine == PoolSpec => Spec
<1>1. PoolInit => Init
  BY DEF PoolInit
<1>2. AccountsInv /\ ScheduleInv /\ [PoolNext]_<<clVars, poolVars>> => [Next]_clVars
  BY LineStep DEF AccountsInv
<1> QED BY <1>1, <1>2, AccountsInvariant, PTL DEF PoolSpec, Spec

\* The type invariant: no subtraction of a deposit, of a repaid part or of cash goes
\* below zero, and a live token stands for a deposit in a tranche that exists.
THEOREM PoolTypeCorrect == PoolSpec => []PoolTypeOK
<1>1. AccountsInv => PoolTypeOK
  BY DEF AccountsInv, PoolInv
<1> QED BY <1>1, AccountsInvariant, PTL

\* What the share prices promise is in the pool: for all amounts, prices, fees and
\* numbers of slices, no rounding of lockPool, drawdown, pay, assess or withdraw
\* promises USDC that is not there.
THEOREM EntitlementsFundedCorrect == PoolSpec => []EntitlementsFunded
<1>1. AccountsInv => EntitlementsFunded
  BY DEF AccountsInv
<1> QED BY <1>1, AccountsInvariant, PTL

\* PoolTokens and the tranches agree on what was deposited.
THEOREM DepositsMatchTokensCorrect == PoolSpec => []DepositsMatchTokens
<1>1. AccountsInv => DepositsMatchTokens
  BY DEF AccountsInv
<1> QED BY <1>1, AccountsInvariant, PTL

\* What the slices count as deployed is the pool's total, which is never less than
\* what is borrowed: `totalDeployed - balance` of _assess does not underflow.
THEOREM DeploymentCoversLoanCorrect == PoolSpec => []DeploymentCoversLoan
<1>1. AccountsInv => DeploymentCoversLoan
  BY DEF AccountsInv
<1> QED BY <1>1, AccountsInvariant, PTL

\* _lockPool locks a slice once: no step moves the end of the lock or the deposits of
\* a slice whose senior tranche is locked.
THEOREM LockedOnceCorrect == PoolSpec => LockedOnce
<1>1. AccountsInv /\ ScheduleInv /\ [PoolNext]_<<clVars, poolVars>>
        => [LocksKept]_<<clVars, poolVars>>
  BY AccountsStep
<1>2. PoolSpec => [][LocksKept]_<<clVars, poolVars>>
  BY <1>1, AccountsInvariant, PTL DEF PoolSpec
<1> QED BY <1>2 DEF LockedOnce, LocksKept

-----------------------------------------------------------------------------
(* Prices.                                                                 *)

\* What a payment may bring a slice's prices to.
LEMMA AccruedWithinDeposits ==
    ASSUME NEW slice \in SliceType, NEW total \in Nat \ {0}, NEW returned \in 0..total
    PROVE  /\ SlicePrincipalAccrued(slice, returned, total) \in Int
           /\ SlicePrincipalAccrued(slice, returned, total) <= Deposited(slice)
<1>1. PICK d \in Nat, D \in Nat : d = slice.principalDeployed /\ D = Deposited(slice)
  BY SliceFacts
<1>2. /\ scaleByFraction(returned, d, total) \in Nat
      /\ scaleByFraction(returned, d, total) * total <= returned * d
  BY ScaleFacts
<1>3. PICK s \in Nat : s = scaleByFraction(returned, d, total)
  BY <1>2
<1>4. returned * d <= total * d
  BY Multiply
<1>5. s * total <= d * total
  <2>1. total * d = d * total /\ s * total \in Int /\ d * total \in Int /\ returned * d \in Int
    OBVIOUS
  <2> QED BY <1>2, <1>3, <1>4, <2>1
<1>6. s <= d
  BY <1>5, Cancel
<1>7. SlicePrincipalAccrued(slice, returned, total) = D - d + s
  BY <1>1, <1>3 DEF SlicePrincipalAccrued
<1> QED BY <1>1, <1>6, <1>7

LEMMA ParStep ==
    ASSUME AccountsInv, ScheduleInv, PrincipalInv', NoTrancheAbovePar,
           [PoolNext]_<<clVars, poolVars>>
    PROVE  NoTrancheAbovePar'
<1> DEFINE F == FP_SCALING_FACTOR
<1>0. F \in Nat \ {0}
  BY Scaling
<1> HIDE DEF F
<1>1. /\ PoolInv /\ slices \in Seq(SliceType) /\ Current \in DOMAIN slices
      /\ \A i \in DOMAIN slices : slices[i] \in SliceType
      /\ totalDeployed \in Nat
  BY PoolFacts DEF AccountsInv
<1>2. \A i \in DOMAIN slices, kind \in Kinds : slices[i][kind].principalSharePrice <= F
  BY DEF NoTrancheAbovePar, F
<1>3. SUFFICES ASSUME NEW i \in DOMAIN slices', NEW kind \in Kinds
               PROVE  slices'[i][kind].principalSharePrice <= F
  BY DEF NoTrancheAbovePar, F
<1>4. CASE QuietPoolStep
  <2>1. CASE AtPar(slices'[i])
    BY <1>0, <2>1 DEF AtPar, F
  <2>2. CASE i \in DOMAIN slices /\ slices'[i] = slices[i]
    BY <1>2, <2>2
  <2> QED BY <1>4, <2>1, <2>2 DEF QuietPoolStep, OnlyParChanged
<1>5. ASSUME NEW amount \in DrawAmounts, PoolDrawdown(amount)
      PROVE  slices'[i][kind].principalSharePrice <= F
  <2> DEFINE c == Current
             drawn == DrawFrom(DrawSlice, amount)
  <2>1. /\ slices' = [slices EXCEPT ![c] = drawn]
        /\ Drawn(DrawSlice, drawn, amount)
        /\ NoPriceRises(DrawSlice, drawn)
        /\ Locked \/ CanLock(slices[Current])
    BY <1>1, <1>5, PoolDrawdownFacts
  <2>2. DrawSlice[kind].principalSharePrice = slices[c][kind].principalSharePrice
    BY <1>1, <2>1, DrawSliceFacts
  <2> HIDE DEF c, drawn
  <2>3. DOMAIN slices' = DOMAIN slices /\ (i # c => slices'[i] = slices[i])
        /\ (i = c => slices'[i] = drawn)
    BY <1>1, <2>1
  <2>4. CASE i # c
    BY <1>2, <2>3, <2>4
  <2>5. CASE i = c
    <3>1. drawn \in SliceType /\ slices[c] \in SliceType
      BY <1>1, <2>1 DEF Drawn, c
    <3>2. /\ drawn[kind].principalSharePrice \in Nat
          /\ slices[c][kind].principalSharePrice \in Nat
      BY <3>1, KindFacts
    <3>3. drawn[kind].principalSharePrice <= slices[c][kind].principalSharePrice
      BY <2>1, <2>2 DEF NoPriceRises
    <3>4. slices[c][kind].principalSharePrice <= F
      BY <1>1, <1>2 DEF c
    <3> QED BY <1>0, <2>3, <2>5, <3>2, <3>3, <3>4
  <2> QED BY <2>4, <2>5
<1>6. ASSUME NEW payment \in Nat, PoolPayment(payment)
      PROVE  slices'[i][kind].principalSharePrice <= F
  <2>1. /\ ScheduleInv' /\ principalOwed' <= balance'
    BY DEF PrincipalInv, PrincipalOwedWithinBalance
  <2>2. PICK parts \in Nat, reserve \in Nat : Settled(payment, parts, reserve)
    BY <1>6, <2>1, PaymentSettled
  <2>3. /\ DOMAIN slices' = DOMAIN slices /\ slices' \in Seq(SliceType)
        /\ Repaid(slices[i], slices'[i], PrincipalAccruedIn(i), PartRepaid(payment, i))
    BY <2>2 DEF Settled
  <2>4. slices[i] \in SliceType /\ i \in DOMAIN slices
    BY <1>1, <2>3
  <2>5. CASE Collected(payment) = 0
    <3>1. slices'[i][kind] = slices[i][kind]
      BY <2>2, <2>3, <2>5 DEF Settled
    <3> QED BY <1>2, <2>3, <3>1
  <2>6. CASE Collected(payment) # 0
    <3>1. CanApply(slices, totalDeployed, balance')
      BY <2>2, <2>6 DEF Settled
    <3>2. /\ totalDeployed \in Nat \ {0} /\ balance' <= totalDeployed
          /\ Deposited(slices[i]) > 0
      BY <1>1, <2>3, <3>1 DEF CanApply
    <3>3. PICK p \in Nat, q \in Nat, D \in Nat \ {0} :
             /\ p = slices'[i][kind].principalSharePrice
             /\ q = slices[i][kind].principalSharePrice
             /\ D = Deposited(slices[i])
      <4>1. slices'[i] \in SliceType
        BY <2>3 DEF Repaid
      <4> QED BY <2>4, <3>2, <4>1, KindFacts, SliceFacts
    <3>4. PICK a \in Int : a = PrincipalAccruedIn(i) /\ a <= D
      <4>1. balance' \in Nat /\ principalOwed' \in Nat
        BY <2>1 DEF ScheduleInv, TypeOK
      <4>2. totalDeployed - balance' + principalOwed' \in 0..totalDeployed
        BY <2>1, <3>2, <4>1
      <4> DEFINE back == totalDeployed - balance' + principalOwed'
      <4>3. PrincipalAccruedIn(i) = SlicePrincipalAccrued(slices[i], back, totalDeployed)
        BY DEF PrincipalAccruedIn
      <4>4. back \in 0..totalDeployed
        BY <4>2
      <4> HIDE DEF back
      <4>5. /\ SlicePrincipalAccrued(slices[i], back, totalDeployed) \in Int
            /\ SlicePrincipalAccrued(slices[i], back, totalDeployed) <= Deposited(slices[i])
        BY <2>4, <3>2, <4>4, AccruedWithinDeposits
      <4> QED BY <3>3, <4>3, <4>5
    <3>5. p <= q \/ p * D <= a * F
      BY <2>3, <3>3, <3>4 DEF Repaid, F
    <3>6. CASE p <= q
      BY <1>0, <1>2, <2>4, <3>3, <3>6
    <3>7. CASE p * D <= a * F
      <4>1. a * F <= D * F
        BY <1>0, <3>4, Multiply
      <4>2. p * D <= F * D
        <5>1. D * F = F * D /\ p * D \in Int /\ a * F \in Int /\ F * D \in Int
          BY <1>0
        <5> QED BY <3>7, <4>1, <5>1
      <4>3. p <= F
        BY <1>0, <4>2, Cancel
      <4> QED BY <3>3, <4>3
    <3> QED BY <3>5, <3>6, <3>7
  <2> QED BY <2>5, <2>6
<1> QED BY <1>4, <1>5, <1>6, PoolStepKinds

\* While there is no dust, no tranche is worth more principal than was deposited in
\* it: neither the roundings of a draw nor a payment lift a price above par, so that
\* PoolTokens.redeem never refuses what redeemableInterestAndPrincipal allows.
THEOREM NoTrancheAboveParCorrect == PoolSpec /\ []NoDust => []NoTrancheAbovePar
<1> DEFINE Inv == AccountsInv /\ ScheduleInv
<1>1. PoolInit => PrincipalInv /\ NoTrancheAbovePar
  <2>1. PoolInit => PrincipalInv
    BY PrincipalInit DEF PoolInit
  <2>2. ASSUME PoolInit PROVE NoTrancheAbovePar
    <3>1. slices = <<NewSlice>>
      BY <2>2 DEF PoolInit
    <3>2. \A i \in DOMAIN slices, kind \in Kinds :
             slices[i][kind].principalSharePrice = FP_SCALING_FACTOR
      BY <3>1, NewSliceFacts DEF AtPar
    <3> QED BY <3>2, Scaling DEF NoTrancheAbovePar
  <2> QED BY <2>1, <2>2
<1>2. Inv /\ NoDust /\ PrincipalInv /\ NoTrancheAbovePar /\ [PoolNext]_<<clVars, poolVars>>
        => PrincipalInv' /\ NoTrancheAbovePar'
  <2> SUFFICES ASSUME Inv, NoDust, PrincipalInv, NoTrancheAbovePar,
                      [PoolNext]_<<clVars, poolVars>>
               PROVE  PrincipalInv' /\ NoTrancheAbovePar'
    OBVIOUS
  <2>1. PrincipalInv'
    BY LineStep, PrincipalStep DEF AccountsInv
  <2> QED BY <2>1, ParStep
<1>3. PoolSpec => []Inv
  BY AccountsInvariant
<1> HIDE DEF Inv
<1> QED BY <1>1, <1>2, <1>3, PTL DEF PoolSpec

-----------------------------------------------------------------------------
(* Payments can be applied.                                                *)

\* The prices of a slice are worth no more than what is not deployed.
LEMMA AvailableCovered ==
    ASSUME NEW slice \in SliceType, SliceCovered(slice, TRUE), Deposited(slice) > 0
    PROVE  AmountAvailable(slice) <= Deposited(slice) - slice.principalDeployed
<1> DEFINE m == slice.senior.principalDeposited
           n == slice.junior.principalDeposited
           p == slice.senior.principalSharePrice
           q == slice.junior.principalSharePrice
           a == Deposited(slice) - slice.principalDeployed
<1>1. m \in Nat /\ n \in Nat /\ p \in Nat /\ q \in Nat
  BY KindFacts DEF Kinds
<1>2. a \in Nat
  BY SliceFacts DEF SliceCovered
<1>3. Deposited(slice) = m + n
  BY DEF Deposited
<1>4. /\ slice["senior"].principalSharePrice * Deposited(slice) <= FP_SCALING_FACTOR * a
      /\ slice["junior"].principalSharePrice * Deposited(slice) <= FP_SCALING_FACTOR * a
  BY DEF SliceCovered, Kinds
<1> HIDE DEF a
<1>5. FP_SCALING_FACTOR * a = a * FP_SCALING_FACTOR
  BY <1>2, Scaling
<1>6. /\ p * (m + n) <= a * FP_SCALING_FACTOR
      /\ q * (m + n) <= a * FP_SCALING_FACTOR
  BY <1>3, <1>4, <1>5
<1>7. m + n > 0
  BY <1>3
<1> HIDE DEF m, n, p, q
<1>8. sharePriceToUsdc(p, m) + sharePriceToUsdc(q, n) <= a
  BY <1>1, <1>2, <1>6, <1>7, SharedAmount
<1>9. AmountAvailable(slice) = sharePriceToUsdc(q, n) + sharePriceToUsdc(p, m)
  BY DEF AmountAvailable, m, n, p, q
<1>10. sharePriceToUsdc(p, m) \in Nat /\ sharePriceToUsdc(q, n) \in Nat
  BY <1>1, UsdcFacts
<1> QED BY <1>2, <1>8, <1>9, <1>10 DEF a

LEMMA DrawCovers ==
    ASSUME NEW slice \in SliceType, NEW after, NEW amount \in Nat,
           Drawn(slice, after, amount), SliceCovered(slice, TRUE), Deposited(slice) > 0,
           amount <= AmountAvailable(slice), NEW isBeforeEnd \in BOOLEAN
    PROVE  SliceCovered(after, isBeforeEnd)
<1>1. PICK D \in Nat, d \in Nat : D = Deposited(slice) /\ d = slice.principalDeployed
  BY SliceFacts
<1>2. PICK v \in Nat : v = AmountAvailable(slice)
  BY AvailableFacts
<1>3. amount <= v /\ v <= D - d
  BY <1>1, <1>2, AvailableCovered
<1>4. after.principalDeployed = d + amount /\ Deposited(after) = D
  BY <1>1 DEF Drawn
<1>5. after.principalDeployed <= Deposited(after)
  BY <1>3, <1>4
<1>6. ASSUME NEW kind \in Kinds
      PROVE  after[kind].principalSharePrice * Deposited(after)
                <= FP_SCALING_FACTOR * (Deposited(after) - after.principalDeployed)
  <2>1. PICK p \in Nat : p = after[kind].principalSharePrice
    BY KindFacts DEF Drawn
  <2>2. p * D <= (v - amount) * FP_SCALING_FACTOR
    BY <1>1, <1>2, <2>1 DEF Drawn
  <2>3. (v - amount) * FP_SCALING_FACTOR <= (D - d - amount) * FP_SCALING_FACTOR
    BY <1>3, Multiply, Scaling
  <2>4. (D - d - amount) * FP_SCALING_FACTOR = FP_SCALING_FACTOR * (D - (d + amount))
    BY Scaling
  <2>5. /\ p * D \in Int /\ (v - amount) * FP_SCALING_FACTOR \in Int
        /\ (D - d - amount) * FP_SCALING_FACTOR \in Int
    BY Scaling
  <2>6. p * D <= FP_SCALING_FACTOR * (D - (d + amount))
    BY <2>2, <2>3, <2>4, <2>5
  <2> QED BY <1>4, <2>1, <2>6
<1> QED BY <1>5, <1>6 DEF SliceCovered

\* A payment, before the end of the term, brings the prices up by what is repaid.
LEMMA RepaidCovers ==
    ASSUME NEW slice \in SliceType, NEW after, NEW accrued, NEW part \in Nat,
           Repaid(slice, after, accrued, part),
           NEW wasBeforeEnd \in BOOLEAN, NEW isBeforeEnd \in BOOLEAN,
           SliceCovered(slice, wasBeforeEnd),
           isBeforeEnd => /\ wasBeforeEnd
                          /\ accrued = Deposited(slice) - slice.principalDeployed + part
    PROVE  SliceCovered(after, isBeforeEnd)
<1>1. PICK D \in Nat, d \in Nat : D = Deposited(slice) /\ d = slice.principalDeployed
  BY SliceFacts
<1>2. after.principalDeployed = d - part /\ Deposited(after) = D /\ after \in SliceType
  BY <1>1 DEF Repaid
<1>3. d <= D
  BY <1>1 DEF SliceCovered
<1>4. ASSUME isBeforeEnd, NEW kind \in Kinds
      PROVE  after[kind].principalSharePrice * Deposited(after)
                <= FP_SCALING_FACTOR * (Deposited(after) - after.principalDeployed)
  <2>1. PICK p \in Nat, q \in Nat : /\ p = after[kind].principalSharePrice
                                    /\ q = slice[kind].principalSharePrice
    BY <1>2, KindFacts
  <2>2. PICK F \in Nat : F = FP_SCALING_FACTOR
    BY Scaling
  <2>3. q * D <= F * (D - d)
    BY <1>1, <1>4, <2>1, <2>2 DEF SliceCovered
  <2>4. p <= q \/ p * D <= accrued * F
    BY <1>1, <2>1, <2>2 DEF Repaid
  <2>5. accrued = D - d + part
    BY <1>1, <1>4
  <2>6. F * (D - (d - part)) = F * (D - d) + F * part /\ F * part \in Nat
        /\ F * (D - d) \in Int /\ p * D \in Nat /\ q * D \in Nat
    <3>1. PICK e \in Int : e = D - d
      OBVIOUS
    <3>2. F * (e + part) = F * e + F * part
      OBVIOUS
    <3> QED BY <3>1, <3>2
  <2>7. CASE p <= q
    <3>1. p * D <= q * D
      BY <2>7, Multiply
    <3>2. p * D <= F * (D - (d - part))
      BY <2>3, <2>6, <3>1
    <3> QED BY <1>2, <2>1, <2>2, <3>2
  <2>8. CASE p * D <= accrued * F
    <3>1. accrued * F = F * (D - (d - part))
      BY <2>5
    <3> QED BY <1>2, <2>1, <2>2, <2>8, <3>1
  <2> QED BY <2>4, <2>7, <2>8
<1> QED BY <1>1, <1>2, <1>3, <1>4 DEF SliceCovered

BeforeEnd == termEndTime = 0 \/ now < termEndTime

LEMMA CoveredStep ==
    ASSUME AccountsInv, ScheduleInv, TimesInv', PrincipalInv', SlicesCovered,
           [PoolNext]_<<clVars, poolVars>>
    PROVE  SlicesCovered'
<1>1. /\ PoolInv /\ slices \in Seq(SliceType) /\ Current \in DOMAIN slices
      /\ \A i \in DOMAIN slices : slices[i] \in SliceType
      /\ totalDeployed \in Nat /\ balance \in Nat /\ now \in Nat /\ termEndTime \in Nat
      /\ totalDeployed >= balance
  BY PoolFacts DEF AccountsInv, ScheduleInv, TypeOK, DeploymentCoversLoan
<1>2. totalDeployed = balance => \A i \in DOMAIN slices : SliceCovered(slices[i], BeforeEnd)
  BY DEF SlicesCovered, BeforeEnd
<1>3. SUFFICES ASSUME totalDeployed' = balance', NEW i \in DOMAIN slices'
               PROVE  SliceCovered(slices'[i], BeforeEnd')
  BY DEF SlicesCovered, BeforeEnd
<1>4. CASE QuietPoolStep
  <2>1. totalDeployed = balance /\ (BeforeEnd' => BeforeEnd)
    <3>1. UNCHANGED <<totalDeployed, balance, termEndTime>> /\ now' \in {now, now + 1}
      BY <1>4 DEF QuietPoolStep, accounting
    <3>2. BeforeEnd' => BeforeEnd
      BY <1>1, <3>1 DEF BeforeEnd
    <3> QED BY <1>3, <3>1, <3>2
  <2>2. CASE AtPar(slices'[i])
    <3>1. slices'[i] \in SliceType
      <4>1. PoolInv'
        BY AccountsStep DEF AccountsInv
      <4> QED BY <4>1 DEF PoolInv, PoolTypeOK, LedgerOk
    <3>2. PICK D \in Nat, F \in Nat : D = Deposited(slices'[i]) /\ F = FP_SCALING_FACTOR
      BY <3>1, SliceFacts, Scaling
    <3>3. /\ slices'[i].principalDeployed = 0
          /\ \A kind \in Kinds : slices'[i][kind].principalSharePrice = F
      BY <2>2, <3>2 DEF AtPar
    <3>4. F * D <= F * (D - 0) /\ 0 <= D
      OBVIOUS
    <3> QED BY <3>2, <3>3, <3>4 DEF SliceCovered
  <2>3. CASE i \in DOMAIN slices /\ slices'[i] = slices[i]
    <3>1. SliceCovered(slices[i], BeforeEnd)
      BY <1>2, <2>1, <2>3
    <3> QED BY <2>1, <2>3, <3>1 DEF SliceCovered
  <2> QED BY <1>4, <2>2, <2>3 DEF QuietPoolStep, OnlyParChanged
<1>5. ASSUME NEW amount \in DrawAmounts, PoolDrawdown(amount)
      PROVE  SliceCovered(slices'[i], BeforeEnd')
  <2> DEFINE c == Current
             drawn == DrawFrom(DrawSlice, amount)
  <2>1. /\ slices' = [slices EXCEPT ![c] = drawn]
        /\ Drawn(DrawSlice, drawn, amount)
        /\ amount \in Nat /\ amount <= AmountAvailable(slices[c])
        /\ Deposited(DrawSlice) > 0
        /\ balance' = balance + amount /\ totalDeployed' = totalDeployed + amount
        /\ Locked \/ CanLock(slices[Current])
    BY <1>1, <1>5, PoolDrawdownFacts
  <2>2. totalDeployed = balance
    BY <1>1, <1>3, <2>1
  <2>3. BeforeEnd
    BY <1>5 DEF PoolDrawdown, Drawdown, BeforeEnd
  <2>4. /\ DrawSlice \in SliceType
        /\ DrawSlice.principalDeployed = slices[c].principalDeployed
        /\ Deposited(DrawSlice) = Deposited(slices[c])
        /\ AmountAvailable(DrawSlice) = AmountAvailable(slices[c])
        /\ \A kind \in Kinds :
              DrawSlice[kind].principalSharePrice = slices[c][kind].principalSharePrice
    BY <1>1, <2>1, DrawSliceFacts
  <2>5. SliceCovered(DrawSlice, TRUE)
    <3>1. SliceCovered(slices[c], TRUE)
      BY <1>1, <1>2, <2>2, <2>3 DEF SliceCovered
    <3> QED BY <2>4, <3>1 DEF SliceCovered
  <2> HIDE DEF c, drawn
  <2>6. /\ i # c => slices'[i] = slices[i] /\ i \in DOMAIN slices
        /\ i = c => slices'[i] = drawn
    BY <1>1, <2>1 DEF c
  <2>7. CASE i = c
    <3>1. PICK b \in BOOLEAN : b = (BeforeEnd')
      BY DEF BeforeEnd
    <3>2. SliceCovered(drawn, b)
      BY <2>1, <2>4, <2>5, DrawCovers
    <3> QED BY <2>6, <2>7, <3>1, <3>2
  <2>8. CASE i # c
    <3>1. SliceCovered(slices[i], BeforeEnd)
      BY <1>2, <2>2, <2>6, <2>8
    <3> QED BY <2>3, <2>6, <2>8, <3>1 DEF SliceCovered
  <2> QED BY <2>7, <2>8
<1>6. ASSUME NEW payment \in Nat, PoolPayment(payment)
      PROVE  SliceCovered(slices'[i], BeforeEnd')
  <2>1. ScheduleInv'
    BY DEF PrincipalInv
  <2>2. PICK parts \in Nat, reserve \in Nat : Settled(payment, parts, reserve)
    BY <1>6, <2>1, PaymentSettled
  <2>3. /\ balance' = balance - PrincipalPayment(payment)
        /\ PrincipalPayment(payment) \in 0..balance
    BY <1>6, PaymentFacts DEF PoolPayment
  <2>4. PICK repaid \in Nat : repaid = PrincipalPayment(payment) /\ repaid <= balance
    BY <1>1, <2>3
  <2>5. /\ DOMAIN slices' = DOMAIN slices
        /\ PartRepaid(payment, i) \in Nat
        /\ Repaid(slices[i], slices'[i], PrincipalAccruedIn(i), PartRepaid(payment, i))
        /\ parts <= repaid /\ totalDeployed' = totalDeployed - parts
    BY <2>2, <2>4 DEF Settled
  <2>6. totalDeployed = balance
    BY <1>1, <1>3, <2>3, <2>4, <2>5
  <2>7. /\ SliceCovered(slices[i], BeforeEnd)
        /\ slices[i] \in SliceType
    BY <1>1, <1>2, <2>5, <2>6
  <2>8. now' = now /\ termEndTime' = termEndTime /\ balance > 0
    BY <1>6 DEF PoolPayment, assess, handlePayment, accounting
  <2>9. BeforeEnd' => BeforeEnd
    BY <2>8 DEF BeforeEnd
  <2>10. ASSUME BeforeEnd'
         PROVE  PrincipalAccruedIn(i) = Deposited(slices[i]) - slices[i].principalDeployed
                                          + PartRepaid(payment, i)
    <3>1. now < termEndTime
      <4>1. termEndTime > 0
        BY <2>8 DEF ScheduleInv, PaymentSchedule
      <4> QED BY <1>1, <2>8, <2>10, <4>1 DEF BeforeEnd
    <3>2. principalOwed' = 0
      <4>1. /\ principalOwed' \in Nat /\ interestAccruedAsOf' \in Nat
            /\ principalOwed' > 0 => interestAccruedAsOf' >= termEndTime'
            /\ interestAccruedAsOf' <= now'
        BY <2>1 DEF PrincipalInv, TimesInv, NothingAheadOfTime, InterestAccruedInPast,
                    ScheduleInv, TypeOK
      <4> QED BY <1>1, <2>8, <3>1, <4>1
    <3>3. totalDeployed - balance' + principalOwed' = repaid
      BY <1>1, <2>3, <2>4, <2>6, <3>2
    <3> QED
      BY <2>4, <3>3 DEF PrincipalAccruedIn, SlicePrincipalAccrued, PartRepaid, RepaidTo,
                        scaleForSlice
  <2>11. PICK was \in BOOLEAN, is \in BOOLEAN : was = BeforeEnd /\ is = (BeforeEnd')
    BY DEF BeforeEnd
  <2>12. PICK part \in Nat : part = PartRepaid(payment, i)
    BY <2>5
  <2>13. SliceCovered(slices'[i], is)
    <3>1. /\ SliceCovered(slices[i], was)
          /\ Repaid(slices[i], slices'[i], PrincipalAccruedIn(i), part)
          /\ is => /\ was
                   /\ PrincipalAccruedIn(i)
                        = Deposited(slices[i]) - slices[i].principalDeployed + part
      BY <2>5, <2>7, <2>9, <2>10, <2>11, <2>12
    <3> QED BY <2>7, <3>1, RepaidCovers
  <2> QED BY <2>11, <2>13
<1> QED BY <1>4, <1>5, <1>6, PoolStepKinds

\* While migrations keep the payment period, there is no dust, and repayments to
\* several slices have lost nothing to rounding: every payment to a pool whose slices
\* were funded is applied, for no subtraction or division of CreditLine.assess, of
\* getTotalInterestAndPrincipal and of the waterfall fails.
THEOREM PaymentsAppliedCorrect ==
    ASSUME SamePaymentPeriod PROVE PoolSpec /\ []NoDust => []PaymentsApplied
<1> DEFINE Inv == AccountsInv /\ ScheduleInv
<1>1. PoolInit => PrincipalInv /\ TimesInv /\ SlicesCovered
  <2>1. PoolInit => PrincipalInv /\ TimesInv
    BY PrincipalInit, TimesInit DEF PoolInit
  <2>2. ASSUME PoolInit PROVE SlicesCovered
    <3>1. slices = <<NewSlice>>
      BY <2>2 DEF PoolInit
    <3>2. /\ NewSlice.principalDeployed = 0 /\ Deposited(NewSlice) = 0
          /\ \A kind \in Kinds : NewSlice[kind].principalSharePrice = FP_SCALING_FACTOR
      BY NewSliceFacts DEF AtPar
    <3>3. FP_SCALING_FACTOR * 0 <= FP_SCALING_FACTOR * (0 - 0)
      BY Scaling
    <3>4. SliceCovered(NewSlice, termEndTime = 0 \/ now < termEndTime)
      BY <3>2, <3>3 DEF SliceCovered
    <3> QED BY <3>1, <3>4 DEF SlicesCovered
  <2> QED BY <2>1, <2>2
<1>2. Inv /\ NoDust /\ PrincipalInv /\ TimesInv /\ SlicesCovered
        /\ [PoolNext]_<<clVars, poolVars>>
        => PrincipalInv' /\ TimesInv' /\ SlicesCovered'
  <2> SUFFICES ASSUME Inv, NoDust, PrincipalInv, TimesInv, SlicesCovered,
                      [PoolNext]_<<clVars, poolVars>>
               PROVE  PrincipalInv' /\ TimesInv' /\ SlicesCovered'
    OBVIOUS
  <2>1. PrincipalInv' /\ TimesInv'
    BY LineStep, PrincipalStep, TimesStep DEF AccountsInv
  <2> QED BY <2>1, CoveredStep
<1>3. Inv /\ SlicesCovered /\ AssessNeverReverts => PaymentsApplied
  <2> SUFFICES ASSUME Inv, SlicesCovered, AssessNeverReverts, balance > 0,
                      \A i \in DOMAIN slices : Deposited(slices[i]) > 0
               PROVE  /\ \A payment \in usdc..MaxUsdc : CanAssess(payment)
                      /\ totalDeployed = balance => CanApply(slices, totalDeployed, balance)
    BY DEF PaymentsApplied
  <2>1. \A payment \in usdc..MaxUsdc : CanAssess(payment)
    <3>1. usdc \in Nat /\ MaxUsdc \in Nat
      BY CreditLineAssumption DEF ScheduleInv, TypeOK
    <3> QED BY <3>1 DEF AssessNeverReverts
  <2>2. totalDeployed = balance => CanApply(slices, totalDeployed, balance)
    <3>1. balance \in Nat
      BY DEF ScheduleInv, TypeOK
    <3> QED BY <3>1 DEF SlicesCovered, SliceCovered, CanApply
  <2> QED BY <2>1, <2>2
<1>4. PoolSpec => []Inv
  BY AccountsInvariant
<1>5. PoolSpec /\ []NoDust => []AssessNeverReverts
  BY PoolRefinesLine, AssessNeverRevertsCorrect, PTL
<1> HIDE DEF Inv
<1> QED BY <1>1, <1>2, <1>3, <1>4, <1>5, PTL DEF PoolSpec

-----------------------------------------------------------------------------
(* Senior before junior.                                                   *)

\* No slice is ever removed.
LEMMA SlicesStay ==
    ASSUME PoolInv, [PoolNext]_<<clVars, poolVars>>
    PROVE  DOMAIN slices \subseteq DOMAIN slices'
<1>0. slices \in Seq(SliceType) /\ DOMAIN slices = 1..Len(slices) /\ Len(slices) \in Nat
  BY PoolFacts
<1>1. ASSUME NEW kind \in Kinds, NEW amount \in DepositAmounts, Deposit(kind, amount)
      PROVE  DOMAIN slices' = DOMAIN slices
  BY <1>1 DEF Deposit
<1>2. ASSUME NEW id, NEW amount, Withdraw(id, amount)
      PROVE  DOMAIN slices' = DOMAIN slices
  BY <1>2 DEF Withdraw, WithdrawDeposit, RedeemToken
<1>3. ASSUME NEW id \in DOMAIN tokens, Burn(id) PROVE DOMAIN slices' = DOMAIN slices
  BY <1>3 DEF Burn, ledger
<1>4. LockJuniorCapital \/ LockPool => DOMAIN slices' = DOMAIN slices
  BY DEF LockJuniorCapital, LockPool
<1>5. ASSUME NEW time \in FundableTimes, InitializeNextSlice(time)
      PROVE  DOMAIN slices \subseteq DOMAIN slices'
  BY <1>0, <1>5 DEF InitializeNextSlice
<1>6. ASSUME NEW amount \in DrawAmounts, PoolDrawdown(amount)
      PROVE  DOMAIN slices' = DOMAIN slices
  BY <1>6 DEF PoolDrawdown
<1>7. ASSUME NEW payment, Distribute(payment) PROVE DOMAIN slices' = DOMAIN slices
  <2>1. CASE Collected(payment) = 0
    BY <1>7, <2>1 DEF Distribute, AccruedSlices
  <2>2. CASE Collected(payment) # 0
    BY <1>7, <2>2 DEF Distribute
  <2> QED BY <2>1, <2>2
<1>8. PoolAssess \/ (\E amount \in Amounts : PoolPay(amount)) => DOMAIN slices' = DOMAIN slices
  BY <1>7 DEF PoolAssess, PoolPay
<1>9. EmergencyShutdown \/ CreditLineOnly => DOMAIN slices' = DOMAIN slices
  BY DEF EmergencyShutdown, CreditLineOnly, poolVars, ledger
<1>10. \/ \E time \in FundableTimes : SetFundableAt(time)
       \/ \E value \in PauseValues : SetPaused(value) \/ SetDrawdownsPaused(value)
       \/ UNCHANGED <<clVars, poolVars>>
       => DOMAIN slices' = DOMAIN slices
  BY DEF SetFundableAt, SetPaused, SetDrawdownsPaused, poolVars, ledger
<1> QED
  BY <1>1, <1>2, <1>3, <1>4, <1>5, <1>6, <1>8, <1>9, <1>10 DEF PoolNext

\* While no price is above par, a slice has no more available than was deposited in it.
LEMMA AvailableWithinDeposits ==
    ASSUME NEW slice \in SliceType, Deposited(slice) > 0,
           \A kind \in Kinds : slice[kind].principalSharePrice <= FP_SCALING_FACTOR
    PROVE  AmountAvailable(slice) <= Deposited(slice)
<1> DEFINE F == FP_SCALING_FACTOR
           m == slice.senior.principalDeposited
           n == slice.junior.principalDeposited
           p == slice.senior.principalSharePrice
           q == slice.junior.principalSharePrice
<1>1. m \in Nat /\ n \in Nat /\ p \in Nat /\ q \in Nat /\ F \in Nat
  BY KindFacts, Scaling DEF Kinds
<1>2. Deposited(slice) = m + n
  BY DEF Deposited
<1>3. p <= F /\ q <= F
  BY DEF Kinds
<1>4. AmountAvailable(slice) = sharePriceToUsdc(q, n) + sharePriceToUsdc(p, m)
  BY DEF AmountAvailable
<1>5. m + n > 0
  BY <1>2
<1> HIDE DEF m, n, p, q, F
<1>6. p * (m + n) <= F * (m + n) /\ q * (m + n) <= F * (m + n)
  <2>1. m + n \in Nat
    BY <1>1
  <2> QED BY <1>1, <1>3, <2>1, Multiply
<1>7. F * (m + n) = (m + n) * F /\ m + n \in Nat
  BY <1>1
<1>8. p * (m + n) <= (m + n) * FP_SCALING_FACTOR /\ q * (m + n) <= (m + n) * FP_SCALING_FACTOR
  BY <1>6, <1>7 DEF F
<1>9. sharePriceToUsdc(p, m) + sharePriceToUsdc(q, n) <= m + n
  BY <1>1, <1>5, <1>7, <1>8, SharedAmount
<1>10. sharePriceToUsdc(p, m) \in Nat /\ sharePriceToUsdc(q, n) \in Nat
  BY <1>1, UsdcFacts
<1> QED BY <1>2, <1>4, <1>9, <1>10

\* What a draw leaves is shared at one price, but for rounding.
LEMMA DrawnEvenly ==
    ASSUME NEW slice \in SliceType, NEW amount \in Nat, amount <= AmountAvailable(slice),
           AmountAvailable(slice) <= Deposited(slice), slice.senior.principalDeposited > 0,
           Drawn(slice, DrawFrom(slice, amount), amount)
    PROVE  LET after == DrawFrom(slice, amount)
           IN  after.junior.principalSharePrice
                 <= after.senior.principalSharePrice + Lacking(slice)
<1> DEFINE after == DrawFrom(slice, amount)
           F == FP_SCALING_FACTOR
           D == Deposited(slice)
           n == slice.senior.principalDeposited
           rem == AmountAvailable(slice) - amount
           g == after.junior.principalSharePrice
           e == calculateExpectedSharePrice(slice.senior, rem, slice)
<1>1. /\ D \in Nat \ {0} /\ n \in Nat \ {0} /\ F \in Nat \ {0} /\ n <= D
  BY SliceFacts, Scaling DEF Deposited
<1>2. rem \in Nat /\ rem <= D
  BY <1>1, AvailableFacts
<1>3. /\ after \in SliceType /\ g \in Nat
      /\ g * D <= rem * F
  <2>1. /\ after \in SliceType
        /\ after["junior"].principalSharePrice * D <= rem * F
    BY DEF Drawn, Kinds
  <2> HIDE DEF after
  <2>2. after["junior"].principalSharePrice \in Nat
    BY <2>1, KindFacts DEF Kinds
  <2> QED BY <2>1, <2>2
<1>4. after.senior.principalSharePrice = e
  <2> DEFINE j == calculateExpectedSharePrice(slice.junior, rem, slice)
             s1 == [slice.senior EXCEPT !.principalSharePrice = e]
             j1 == [slice.junior EXCEPT !.principalSharePrice = j]
  <2>1. after = [slice EXCEPT !.junior = j1, !.senior = s1,
                              !.principalDeployed = @ + amount]
    BY DEF DrawFrom
  <2>2. slice.senior \in TrancheType
    BY SliceFacts
  <2> HIDE DEF e, j, after
  <2>3. s1.principalSharePrice = e
    BY <2>2 DEF TrancheType
  <2> HIDE DEF s1, j1
  <2>4. after.senior = s1
    BY <2>1 DEF SliceType
  <2> QED BY <2>3, <2>4
<1>5. e \in Nat
  <2>1. slice.senior \in TrancheType /\ Deposited(slice) > 0
    BY <1>1, SliceFacts
  <2> HIDE DEF rem, D
  <2> QED BY <1>2, <2>1, ExpectedPriceFacts
<1> HIDE DEF after, rem, g
<1>6. g * n <= (e + 2) * n + D
  BY <1>1, <1>2, <1>3, ExpectedPriceLacksLittle
<1> HIDE DEF e, n, D, F
<1>7. (g - e - 3) * n <= F + D
  <2>1. /\ (e + 2) * n = e * n + 2 * n
        /\ (g - e - 3) * n = g * n - e * n - 3 * n
    BY <1>1, <1>3, <1>5
  <2>2. e * n \in Int /\ g * n \in Int
    BY <1>1, <1>3, <1>5
  <2> QED BY <1>1, <1>6, <2>1, <2>2
<1>8. F + D \in Nat /\ g - e - 3 \in Int
  BY <1>1, <1>3, <1>5
<1>9. g - e - 3 <= (F + D) \div n
  BY <1>1, <1>7, <1>8, FloorAbove
<1>10. (F + D) \div n \in Nat
  BY <1>1, <1>8, FloorFacts
<1>11. g <= e + ((F + D) \div n + 3)
  BY <1>3, <1>5, <1>9, <1>10
<1> QED BY <1>4, <1>11 DEF Lacking, F, D, n, g, after

\* What a payment that was applied does to the prices of a pool's only slice.
LEMMA PaidSeniorFirst ==
    ASSUME AccountsInv, ScheduleInv, PrincipalInv', NEW payment \in Nat, PoolPayment(payment),
           Collected(payment) # 0, Len(slices) = 1, slices[1].senior.principalDeposited > 0
    PROVE  LET ps == slices[1].senior.principalSharePrice
               qs == slices'[1].senior.principalSharePrice
               pj == slices[1].junior.principalSharePrice
               qj == slices'[1].junior.principalSharePrice
           IN  /\ ps <= qs
               /\ qj <= pj \/ qj <= qs + Lacking(slices[1])
<1> DEFINE interest == totalInterestAccrued' - totalInterestAccrued
           pool == AccruedSlices(interest)
           i0 == InterestPayment(payment)
           p0 == PrincipalPayment(payment)
           r0 == PaymentRemaining(payment)
           total == totalDeployed
           left == balance'
           owed == principalOwed'
           back == total - left + owed
           out == applyToAllSlices(pool, i0, p0 + r0, total, left, owed).slices[1]
<1>1. /\ slices \in Seq(SliceType) /\ total \in Nat \ {0}
      /\ total = DeployedIn(slices) /\ slices[1] \in SliceType /\ DOMAIN slices = {1}
  BY PoolFacts, OneElement DEF PoolPayment, AccountsInv, PoolInv
<1>2. /\ interest \in Nat /\ i0 \in Nat /\ p0 \in 0..balance /\ r0 \in Nat
      /\ left = balance - p0
  BY PaymentFacts DEF PoolPayment
<1>3. balance \in Nat /\ left \in Nat /\ owed \in Nat /\ owed <= left
  BY DEF ScheduleInv, TypeOK, PrincipalInv, PrincipalOwedWithinBalance
<1>4. p0 + r0 \in Nat
  BY <1>2, <1>3
<1>5. /\ CanApply(pool, total, left)
      /\ slices' = [i \in DOMAIN slices |->
                      [applyToAllSlices(pool, i0, p0 + r0, total, left, owed).slices[i]
                         EXCEPT !.principalDeployed = @ - RepaidTo(payment, slices[i])]]
  BY DEF PoolPayment, Distribute
<1>6. Accruing(slices, pool)
  <2> HIDE DEF interest
  <2> QED BY <1>1, <1>2, AccruedSlicesFacts
<1> HIDE DEF interest, pool, i0, p0, r0, total, left, owed
<1>7. /\ pool \in Seq(SliceType) /\ DOMAIN pool = {1} /\ Len(pool) = 1
      /\ pool[1] \in SliceType
      /\ pool[1].senior = slices[1].senior /\ pool[1].junior = slices[1].junior
      /\ pool[1].principalDeployed = slices[1].principalDeployed
      /\ Deposited(pool[1]) = Deposited(slices[1])
  <2>1. pool \in Seq(SliceType) /\ DOMAIN pool = {1} /\ Len(pool) = 1
    BY <1>1, <1>6 DEF Accruing
  <2> QED BY <1>1, <1>6, <2>1, OneElement DEF Accruing
<1>8. pool[1].principalDeployed = total
  <2> DEFINE d == [i \in DOMAIN slices |-> slices[i].principalDeployed]
  <2>1. DeployedIn(slices) = SumFunctionOnSet(d, {1})
    BY <1>1, LedgerTotals
  <2>2. d[1] = slices[1].principalDeployed /\ slices[1].principalDeployed \in Nat
    BY <1>1, SliceFacts
  <2> HIDE DEF d
  <2>3. SumFunctionOnSet(d, {1}) = d[1]
    BY <2>2, SumOfOne
  <2> QED BY <1>1, <1>7, <2>1, <2>2, <2>3
<1>9. /\ SlicePrincipalAccrued(pool[1], back, total) \in Nat
      /\ SlicePrincipalAccrued(pool[1], back, total) <= Deposited(pool[1])
  <2>1. total >= left /\ Deposited(pool[1]) > 0 /\ total <= Deposited(pool[1])
    BY <1>5, <1>7, <1>8 DEF CanApply
  <2>2. back \in 0..total /\ back \in Nat
    BY <1>1, <1>3, <2>1
  <2> HIDE DEF back
  <2>3. SlicePrincipalAccrued(pool[1], back, total) <= Deposited(pool[1])
    BY <1>1, <1>7, <2>2, AccruedWithinDeposits
  <2>4. scaleByFraction(back, total, total) = back
    BY <1>1, <2>2, WholePart
  <2>5. SlicePrincipalAccrued(pool[1], back, total) = Deposited(pool[1]) - total + back
    BY <1>8, <2>4 DEF SlicePrincipalAccrued
  <2>6. Deposited(pool[1]) \in Nat
    BY <1>7, SliceFacts
  <2> QED BY <1>1, <2>1, <2>2, <2>3, <2>5, <2>6
<1>10. LET ps == pool[1].senior.principalSharePrice
           qs == out.senior.principalSharePrice
           pj == pool[1].junior.principalSharePrice
           qj == out.junior.principalSharePrice
       IN  /\ ps <= qs
           /\ qj <= pj \/ qj <= qs + Lacking(pool[1])
  <2>1. pool[1].senior.principalDeposited > 0
    BY <1>7
  <2> QED BY <1>1, <1>2, <1>3, <1>4, <1>5, <1>7, <1>8, <1>9, <2>1, OneSliceServed
<1>11. slices'[1].senior = out.senior /\ slices'[1].junior = out.junior
  <2>1. slices'[1] = [out EXCEPT !.principalDeployed = @ - RepaidTo(payment, slices[1])]
    BY <1>1, <1>5
  <2> HIDE DEF out
  <2>2. slices'[1] \in SliceType
    <3>1. ScheduleInv'
      BY DEF PrincipalInv
    <3>2. PICK parts \in Nat, reserve \in Nat : Settled(payment, parts, reserve)
      BY <3>1, PaymentSettled
    <3> QED BY <1>1, <3>2 DEF Settled, Repaid
  <2>3. DOMAIN slices'[1] = DOMAIN out
    BY <2>1
  <2>4. "senior" \in DOMAIN out /\ "junior" \in DOMAIN out
    BY <2>2, <2>3 DEF SliceType
  <2> QED BY <2>1, <2>4
<1>12. Lacking(pool[1]) = Lacking(slices[1])
  BY <1>7 DEF Lacking
<1> HIDE DEF out
<1> QED BY <1>7, <1>10, <1>11, <1>12

LEMMA SeniorFirstStep ==
    ASSUME AccountsInv, ScheduleInv, NoTrancheAbovePar, SeniorFirst, PrincipalInv',
           [PoolNext]_<<clVars, poolVars>>
    PROVE  SeniorFirst'
<1>1. /\ PoolInv /\ slices \in Seq(SliceType) /\ Current \in DOMAIN slices
      /\ DOMAIN slices = 1..Len(slices) /\ Len(slices) \in Nat /\ Current = Len(slices)
      /\ \A i \in DOMAIN slices : slices[i] \in SliceType
  BY PoolFacts DEF AccountsInv
<1>2. PoolInv'
  BY AccountsStep DEF AccountsInv
<1>3. SUFFICES ASSUME Len(slices') = 1, isLocked(slices'[1]),
                      slices'[1].senior.principalDeposited > 0,
                      slices'[1].junior.principalDeposited > 0
               PROVE  slices'[1].junior.principalSharePrice
                        <= slices'[1].senior.principalSharePrice + Lacking(slices'[1])
  BY DEF SeniorFirst, SeniorFirstIn, RoundingOfSenior, Lacking
<1>4. /\ slices' \in Seq(SliceType) /\ slices'[1] \in SliceType /\ DOMAIN slices' = {1}
      /\ Lacking(slices'[1]) \in Nat
  <2>1. slices' \in Seq(SliceType) /\ slices'[1] \in SliceType /\ DOMAIN slices' = {1}
    BY <1>2, <1>3, OneElement DEF PoolInv, PoolTypeOK, LedgerOk
  <2>2. PICK a \in Nat, n \in Nat \ {0} :
           /\ a = FP_SCALING_FACTOR + Deposited(slices'[1])
           /\ n = slices'[1].senior.principalDeposited
    BY <1>3, <2>1, SliceFacts, Scaling
  <2>3. a \div n \in Nat
    BY <2>2, FloorFacts
  <2> QED BY <2>1, <2>2, <2>3 DEF Lacking
<1>5. /\ Len(slices) = 1 /\ DOMAIN slices = {1} /\ Current = 1 /\ slices[1] \in SliceType
  <2>1. DOMAIN slices \subseteq {1}
    BY <1>1, <1>4, SlicesStay
  <2> QED BY <1>1, <2>1
\* Senior first, in the slice as it is before the step.
<1>6. /\ isLocked(slices[1])
      /\ slices[1].senior.principalDeposited > 0 /\ slices[1].junior.principalDeposited > 0
      => slices[1].junior.principalSharePrice
           <= slices[1].senior.principalSharePrice + Lacking(slices[1])
  BY <1>5 DEF SeniorFirst, SeniorFirstIn, RoundingOfSenior, Lacking
<1>7. CASE QuietPoolStep
  <2>1. AtPar(slices'[1]) \/ slices'[1] = slices[1]
    BY <1>4, <1>7 DEF QuietPoolStep, OnlyParChanged
  <2>2. CASE AtPar(slices'[1])
    <3>1. \A kind \in Kinds : slices'[1][kind].principalSharePrice = FP_SCALING_FACTOR
      BY <2>2 DEF AtPar
    <3>2. /\ slices'[1].senior.principalSharePrice = FP_SCALING_FACTOR
          /\ slices'[1].junior.principalSharePrice = FP_SCALING_FACTOR
      BY <3>1 DEF Kinds
    <3> QED BY <1>4, <3>2, Scaling
  <2>3. CASE slices'[1] = slices[1]
    BY <1>3, <1>6, <2>3 DEF isLocked
  <2> QED BY <2>1, <2>2, <2>3
<1>8. ASSUME NEW amount \in DrawAmounts, PoolDrawdown(amount)
      PROVE  slices'[1].junior.principalSharePrice
               <= slices'[1].senior.principalSharePrice + Lacking(slices'[1])
  <2> DEFINE drawn == DrawFrom(DrawSlice, amount)
  <2>1. /\ slices' = [slices EXCEPT ![Current] = drawn]
        /\ Drawn(DrawSlice, drawn, amount)
        /\ amount \in Nat /\ amount <= AmountAvailable(slices[Current])
        /\ Deposited(DrawSlice) > 0
        /\ Locked \/ CanLock(slices[Current])
    BY <1>1, <1>8, PoolDrawdownFacts
  <2>2. slices'[1] = drawn
    BY <1>5, <2>1
  <2>3. /\ DrawSlice \in SliceType
        /\ AmountAvailable(DrawSlice) = AmountAvailable(slices[Current])
        /\ \A kind \in Kinds :
              DrawSlice[kind].principalSharePrice = slices[Current][kind].principalSharePrice
    BY <1>1, <2>1, DrawSliceFacts
  <2>4. AmountAvailable(DrawSlice) <= Deposited(DrawSlice)
    <3>1. \A kind \in Kinds : DrawSlice[kind].principalSharePrice <= FP_SCALING_FACTOR
      BY <1>1, <2>3 DEF NoTrancheAbovePar
    <3> QED BY <2>1, <2>3, <3>1, AvailableWithinDeposits
  <2>5. /\ Deposited(drawn) = Deposited(DrawSlice)
        /\ drawn.senior.principalDeposited = DrawSlice.senior.principalDeposited
    BY <2>1 DEF Drawn, Kinds
  <2>6. DrawSlice.senior.principalDeposited > 0
    BY <1>3, <2>2, <2>5
  <2>7. drawn.junior.principalSharePrice
          <= drawn.senior.principalSharePrice + Lacking(DrawSlice)
    BY <2>1, <2>3, <2>4, <2>6, DrawnEvenly
  <2> HIDE DEF drawn
  <2>8. Lacking(drawn) = Lacking(DrawSlice)
    BY <2>5 DEF Lacking
  <2> QED BY <2>2, <2>7, <2>8
<1>9. ASSUME NEW payment \in Nat, PoolPayment(payment)
      PROVE  slices'[1].junior.principalSharePrice
               <= slices'[1].senior.principalSharePrice + Lacking(slices'[1])
  <2>1. PICK parts \in Nat, reserve \in Nat : Settled(payment, parts, reserve)
    <3>1. ScheduleInv'
      BY DEF PrincipalInv
    <3> QED BY <1>9, <3>1, PaymentSettled
  <2>2. /\ Deposited(slices'[1]) = Deposited(slices[1])
        /\ slices'[1].senior.principalDeposited = slices[1].senior.principalDeposited
        /\ slices'[1].junior.principalDeposited = slices[1].junior.principalDeposited
        /\ slices'[1].senior.lockedUntil = slices[1].senior.lockedUntil
    BY <1>5, <2>1 DEF Settled, Repaid, Kinds
  <2>3. Lacking(slices'[1]) = Lacking(slices[1])
    BY <2>2 DEF Lacking
  <2>4. slices[1].junior.principalSharePrice
           <= slices[1].senior.principalSharePrice + Lacking(slices[1])
    BY <1>3, <1>6, <2>2 DEF isLocked
  <2>5. /\ slices[1].senior.principalSharePrice \in Nat
        /\ slices[1].junior.principalSharePrice \in Nat
        /\ slices'[1].senior.principalSharePrice \in Nat
        /\ slices'[1].junior.principalSharePrice \in Nat
    BY <1>4, <1>5, KindFacts DEF Kinds
  <2>6. CASE Collected(payment) = 0
    <3>1. \A kind \in Kinds : slices'[1][kind] = slices[1][kind]
      BY <1>5, <2>1, <2>6 DEF Settled
    <3>2. slices'[1].senior = slices[1].senior /\ slices'[1].junior = slices[1].junior
      BY <3>1 DEF Kinds
    <3> QED BY <2>3, <2>4, <3>2
  <2>7. CASE Collected(payment) # 0
    <3>1. slices[1].senior.principalDeposited > 0
      BY <1>3, <2>2
    <3>2. /\ slices[1].senior.principalSharePrice <= slices'[1].senior.principalSharePrice
          /\ \/ slices'[1].junior.principalSharePrice <= slices[1].junior.principalSharePrice
             \/ slices'[1].junior.principalSharePrice
                  <= slices'[1].senior.principalSharePrice + Lacking(slices[1])
      BY <1>5, <1>9, <2>7, <3>1, PaidSeniorFirst
    <3>3. Lacking(slices[1]) \in Nat
      BY <1>4, <2>3
    <3> QED BY <2>3, <2>4, <2>5, <3>2, <3>3
  <2> QED BY <2>6, <2>7, <2>5
<1> QED BY <1>7, <1>8, <1>9, PoolStepKinds

\* Senior before junior, for all amounts, prices and payments: while there is no dust,
\* neither a draw nor a payment, full or short, ever leaves the junior tranche of a
\* pool's only slice with more of its principal than the senior tranche, but for what
\* the divisions of TranchingLogic round off.
THEOREM SeniorFirstCorrect == PoolSpec /\ []NoDust => []SeniorFirst
<1> DEFINE Inv == AccountsInv /\ ScheduleInv
<1>1. PoolInit => PrincipalInv /\ SeniorFirst
  <2>1. PoolInit => PrincipalInv
    BY PrincipalInit DEF PoolInit
  <2>2. ASSUME PoolInit PROVE SeniorFirst
    <3>1. slices = <<NewSlice>>
      BY <2>2 DEF PoolInit
    <3>2. slices[1].senior.principalDeposited = 0
      BY <3>1, NewSliceFacts DEF Kinds
    <3> QED BY <3>2 DEF SeniorFirst, SeniorFirstIn
  <2> QED BY <2>1, <2>2
<1>2. Inv /\ NoDust /\ PrincipalInv /\ NoTrancheAbovePar /\ SeniorFirst
        /\ [PoolNext]_<<clVars, poolVars>>
        => PrincipalInv' /\ SeniorFirst'
  <2> SUFFICES ASSUME Inv, NoDust, PrincipalInv, NoTrancheAbovePar, SeniorFirst,
                      [PoolNext]_<<clVars, poolVars>>
               PROVE  PrincipalInv' /\ SeniorFirst'
    OBVIOUS
  <2>1. PrincipalInv'
    BY LineStep, PrincipalStep DEF AccountsInv
  <2> QED BY <2>1, SeniorFirstStep
<1>3. PoolSpec => []Inv
  BY AccountsInvariant
<1> HIDE DEF Inv
<1> QED BY <1>1, <1>2, <1>3, NoTrancheAboveParCorrect, PTL DEF PoolSpec
=============================================================================
