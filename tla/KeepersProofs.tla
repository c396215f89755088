--------------------------- MODULE KeepersProofs ---------------------------
(***************************************************************************)
(* Theorems about the autotasks: they do to a pool only what the pool      *)
(* allows anyone to do, and the redeemer takes nothing back that is still  *)
(* to be lent, whatever happens between its reads and its transactions.    *)
(***************************************************************************)
EXTENDS KeepersProperties, TranchedPoolProofs

ChainVars == <<clVars, poolVars>>

\* What a run of an autotask has mined is a step of the pool.
LEMMA KeepersStepKinds ==
    ASSUME [KeepersNext]_allVars PROVE [PoolNext]_ChainVars
<1>1. CASE UNCHANGED allVars
  BY <1>1 DEF allVars, ChainVars
<1>2. CASE PoolNext /\ UNCHANGED keeperVars
  BY <1>2
<1>3. CASE Assessor
  BY <1>3 DEF Assessor, ChainUnchanged, ChainVars
<1>4. CASE AssessMined
  <2>1. PoolAssess \/ ChainUnchanged
    BY <1>4 DEF AssessMined
  <2> QED BY <2>1 DEF PoolNext, ChainUnchanged, ChainVars
<1>5. CASE Redeemer
  <2>1. CASE ChainUnchanged
    BY <2>1 DEF ChainUnchanged, ChainVars
  <2>2. ASSUME NEW id, CanRedeem(id), Withdraw(id, Redeemable(id)) PROVE PoolNext
    BY <2>2 DEF CanRedeem, PoolNext
  <2> QED BY <1>5, <2>1, <2>2 DEF Redeemer, Redeem
<1> QED BY <1>1, <1>2, <1>3, <1>4, <1>5 DEF KeepersNext

\* The autotasks have no power over a pool that others do not have: every history of
\* a pool with its autotasks is one of the pool, whose theorems therefore hold of it.
THEOREM KeepersRefinePool == KeepersSpec => PoolSpec
<1>1. KeepersInit => PoolInit
  BY DEF KeepersInit
<1>2. [KeepersNext]_allVars => [PoolNext]_<<clVars, poolVars>>
  BY KeepersStepKinds DEF ChainVars
<1> QED BY <1>1, <1>2, PTL DEF KeepersSpec, PoolSpec

-----------------------------------------------------------------------------
(* Tokens that a run has read of.                                          *)

\* Ids are given once, and a token stays in its tranche.
TokensKept ==
    /\ lastTokenId' \in {lastTokenId, lastTokenId + 1}
    /\ \A id \in DOMAIN tokens' :
          \/ id = lastTokenId + 1
          \/ id \in DOMAIN tokens /\ tokens'[id].tranche = tokens[id].tranche

LEMMA TokensStep ==
    ASSUME PoolInv, [PoolNext]_ChainVars PROVE TokensKept
<1>1. \A id \in DOMAIN tokens : tokens[id] \in TokenType
  BY TokenFacts
<1>2. UNCHANGED tokenVars => TokensKept
  BY DEF tokenVars, TokensKept
<1>3. ASSUME NEW kind \in Kinds, NEW amount \in DepositAmounts, Deposit(kind, amount)
      PROVE  TokensKept
  BY <1>3 DEF Deposit, mint, TokensKept
<1>4. ASSUME NEW id \in DOMAIN tokens, NEW amount, Withdraw(id, amount) PROVE TokensKept
  <2>1. ASSUME NEW p, NEW i, redeem(id, p, i) PROVE TokensKept
    BY <1>1, <2>1 DEF redeem, TokensKept, TokenType
  <2>2. ASSUME withdrawPrincipal(id, amount) PROVE TokensKept
    BY <1>1, <2>2 DEF withdrawPrincipal, TokensKept, TokenType
  <2> QED BY <1>4, <2>1, <2>2 DEF Withdraw, WithdrawDeposit, RedeemToken
<1>5. ASSUME NEW id \in DOMAIN tokens, Burn(id) PROVE TokensKept
  BY <1>5 DEF Burn, burn, Restrict, TokensKept
<1>6. PoolAssess \/ (\E amount \in Amounts : PoolPay(amount)) => TokensKept
  BY <1>2 DEF PoolAssess, PoolPay
<1>7. (\E amount \in DrawAmounts : PoolDrawdown(amount)) => TokensKept
  BY <1>2 DEF PoolDrawdown
<1>8. \/ LockJuniorCapital \/ LockPool
      \/ \E time \in FundableTimes : SetFundableAt(time) \/ InitializeNextSlice(time)
      \/ \E value \in PauseValues : SetPaused(value) \/ SetDrawdownsPaused(value)
      \/ EmergencyShutdown
      => TokensKept
  BY <1>2 DEF LockJuniorCapital, LockPool, SetFundableAt, InitializeNextSlice, SetPaused,
              SetDrawdownsPaused, EmergencyShutdown
<1>9. CreditLineOnly \/ UNCHANGED ChainVars => TokensKept
  BY <1>2 DEF CreditLineOnly, ChainVars, poolVars
<1> QED
  BY <1>3, <1>4, <1>5, <1>6, <1>7, <1>8, <1>9 DEF PoolNext

\* A token that a run has read of was minted for the senior pool.
OfSenior(id) ==
    /\ id \in 1..lastTokenId
    /\ id \in DOMAIN tokens => tokens[id].tranche[2] = "senior"

OfLocked(id) == id \in DOMAIN tokens => isLocked(slices[tokens[id].tranche[1]])

\* The inductive invariant behind InvestmentStays: what the redeemer has found active
\* it may take in transactions that are mined at any time later, for a slice that is
\* locked stays locked and no id is given to another token.
RedeemerInv ==
    /\ redeemer \in [pc : {"idle", "check", "redeem"}, events : SUBSET Nat,
                     amounts : SUBSET Nat, active : SUBSET Nat]
    /\ \A id \in redeemer.events \cup redeemer.amounts \cup redeemer.active : OfSenior(id)
    /\ \A id \in redeemer.active : OfLocked(id)

\* The pool's steps leave true what a run has found.
LEMMA FoundStays ==
    ASSUME PoolInv, TokensKept, LocksKept, NEW id, OfSenior(id)
    PROVE  OfSenior(id)' /\ (OfLocked(id) => OfLocked(id)')
<1>1. lastTokenId \in Nat /\ id \in 1..lastTokenId
  BY TokenFacts DEF OfSenior
<1>2. id \in 1..lastTokenId'
  BY <1>1 DEF TokensKept
<1>3. ASSUME id \in DOMAIN tokens'
      PROVE  /\ id \in DOMAIN tokens /\ tokens'[id].tranche = tokens[id].tranche
             /\ tokens[id].tranche[1] \in DOMAIN slices
  <2>1. id # lastTokenId + 1
    BY <1>1
  <2> QED BY <1>3, <2>1, TokenFacts DEF TokensKept
<1>4. OfSenior(id)'
  BY <1>2, <1>3 DEF OfSenior
<1>5. ASSUME OfLocked(id) PROVE OfLocked(id)'
  <2>1. ASSUME NEW i \in DOMAIN slices, isLocked(slices[i]) PROVE isLocked(slices'[i])
    <3>1. slices'[i]["senior"].lockedUntil = slices[i]["senior"].lockedUntil
      BY <2>1 DEF LocksKept, Kinds
    <3> QED BY <2>1, <3>1 DEF isLocked
  <2> QED BY <1>3, <1>5, <2>1 DEF OfLocked
<1> QED BY <1>4, <1>5

LEMMA RedeemerStep ==
    ASSUME PoolInv, LocksKept, RedeemerInv, [KeepersNext]_allVars PROVE RedeemerInv'
<1>1. TokensKept
  BY KeepersStepKinds, TokensStep
<1>2. \A id : OfSenior(id) => OfSenior(id)' /\ (OfLocked(id) => OfLocked(id)')
  BY <1>1, FoundStays
<1>3. CASE UNCHANGED redeemer
  BY <1>2, <1>3 DEF RedeemerInv
<1>4. CASE RedeemerReads /\ ChainUnchanged
  <2>1. \A id : (OfSenior(id)' <=> OfSenior(id)) /\ (OfLocked(id)' <=> OfLocked(id))
    BY <1>4 DEF ChainUnchanged, poolVars, ledger, tokenVars, OfSenior, OfLocked
  <2>2. CASE StartRedeemer
    <3>1. \A id \in SeniorTokens : id \in Nat /\ OfSenior(id)
      BY TokenFacts DEF SeniorTokens, OfSenior
    <3>2. redeemer' = [pc |-> "check", events |-> SeniorTokens, amounts |-> {}, active |-> {}]
      BY <2>2 DEF StartRedeemer, NoRedeemer
    <3>3. SeniorTokens \subseteq Nat
      BY <3>1
    <3> QED BY <2>1, <3>1, <3>2, <3>3 DEF RedeemerInv
  <2>3. CASE AllChecked
    BY <2>1, <2>3 DEF AllChecked, AfterChecks, NoRedeemer, RedeemerInv
  <2>4. ASSUME NEW id \in 1..MaxTokens, CheckAmount(id) PROVE RedeemerInv'
    BY <2>1, <2>4 DEF CheckAmount, RedeemerInv
  <2>5. ASSUME NEW id \in 1..MaxTokens, CheckTranche(id) PROVE RedeemerInv'
    <3>1. ASSUME MayRedeem(id), OfSenior(id) PROVE OfLocked(id)
      <4>1. /\ id \in DOMAIN tokens /\ tokens[id].tranche[2] = "senior"
            /\ tokens[id].tranche[1] \in DOMAIN slices
        BY <3>1, TokenFacts DEF MayRedeem, OfSenior
      <4>2. PICK i \in DOMAIN slices : i = tokens[id].tranche[1]
        BY <4>1
      <4>3. slices[i]["senior"].lockedUntil # 0
        BY <3>1, <4>1, <4>2 DEF MayRedeem, LockedTranche, TrancheOf
      <4>4. slices[i]["senior"].lockedUntil \in Nat
        BY PoolFacts, KindFacts DEF Kinds
      <4> QED BY <4>2, <4>3, <4>4 DEF OfLocked, isLocked
    <3>2. id \in redeemer.amounts /\ OfSenior(id)
      BY <2>5 DEF CheckTranche, RedeemerInv
    <3> QED BY <2>1, <2>5, <3>1, <3>2 DEF CheckTranche, RedeemerInv
  <2> QED BY <1>4, <2>2, <2>3, <2>4, <2>5 DEF RedeemerReads
<1>5. ASSUME NEW id \in 1..MaxTokens, Redeem(id) PROVE RedeemerInv'
  <2>1. \/ redeemer' = NoRedeemer
        \/ redeemer' = [redeemer EXCEPT !.active = @ \ {id}]
    BY <1>5 DEF Redeem, Answered
  <2> QED BY <1>2, <2>1 DEF NoRedeemer, RedeemerInv
<1> QED
  BY <1>3, <1>4, <1>5 DEF KeepersNext, Assessor, AssessMined, Redeemer, allVars, keeperVars

LEMMA RedeemerInvariant == KeepersSpec => []RedeemerInv
<1>1. KeepersInit => RedeemerInv
  BY DEF KeepersInit, NoRedeemer, RedeemerInv
<1>2. AccountsInv /\ ScheduleInv /\ RedeemerInv /\ [KeepersNext]_allVars => RedeemerInv'
  <2> SUFFICES ASSUME AccountsInv, ScheduleInv, RedeemerInv, [KeepersNext]_allVars
               PROVE  RedeemerInv'
    OBVIOUS
  <2>1. [PoolNext]_<<clVars, poolVars>>
    BY KeepersStepKinds DEF ChainVars
  <2>2. PoolInv /\ LocksKept
    BY <2>1, AccountsStep DEF AccountsInv
  <2> QED BY <2>2, RedeemerStep
<1>3. KeepersSpec => [](AccountsInv /\ ScheduleInv)
  BY KeepersRefinePool, AccountsInvariant, PTL
<1> QED BY <1>1, <1>2, <1>3, PTL DEF KeepersSpec

-----------------------------------------------------------------------------
(* The redeemer.                                                           *)

\* No run of the redeemer takes back what the senior pool has deposited in a slice,
\* though any steps of the pool come between its reads and its transactions, and
\* though the transactions are mined in any order: what it sends is only ever a
\* redemption.
THEOREM InvestmentStaysCorrect == KeepersSpec => InvestmentStays
<1>1. ASSUME PoolInv, RedeemerInv, Redeemer
      PROVE  \A i \in DOMAIN slices :
                slices'[i].senior.principalDeposited = slices[i].senior.principalDeposited
  <2>1. CASE ChainUnchanged
    BY <2>1 DEF ChainUnchanged, poolVars, ledger
  <2>2. ASSUME NEW id, Answered(id), CanRedeem(id), Withdraw(id, Redeemable(id))
        PROVE  slices' = slices
    <3>1. id \in redeemer.active /\ id \in DOMAIN tokens
      BY <2>2 DEF Answered, CanRedeem
    <3>2. isLocked(slices[tokens[id].tranche[1]]) /\ tokens[id].tranche[2] = "senior"
      BY <1>1, <3>1 DEF RedeemerInv, OfSenior, OfLocked
    <3>3. TrancheOf(id).lockedUntil > 0
      BY <3>2 DEF TrancheOf, isLocked
    <3>4. ~WithdrawDeposit(id, Redeemable(id))
      BY <3>3 DEF WithdrawDeposit
    <3> QED BY <2>2, <3>4 DEF Withdraw, RedeemToken
  <2> QED BY <1>1, <2>1, <2>2 DEF Redeemer, Redeem
<1>2. AccountsInv /\ RedeemerInv
        => [Redeemer => \A i \in DOMAIN slices :
               slices'[i].senior.principalDeposited
                 = slices[i].senior.principalDeposited]_allVars
  BY <1>1 DEF AccountsInv
<1>3. KeepersSpec => [](AccountsInv /\ ScheduleInv)
  BY KeepersRefinePool, AccountsInvariant, PTL
<1> QED BY <1>2, <1>3, RedeemerInvariant, PTL DEF InvestmentStays
=============================================================================
