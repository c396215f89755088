------------------------------ MODULE Keepers ------------------------------
(* The autotasks that keep a pool going: the assessor, which has every pool   *)
(* assessed whose payment period is over, and the redeemer, which has the     *)
(* senior pool's tokens redeemed. Each is a scheduled run that reads the      *)
(* chain in several requests, while the pool goes on, and then sends          *)
(* transactions. A run that fails before its first read has no effect and is  *)
(* left out.                                                                  *)
EXTENDS TranchedPool

CONSTANT MaxAssessments    \* bound: assess() transactions that wait to be mined

ASSUME KeepersAssumption == MaxAssessments \in Nat \ {0}

VARIABLES
    assessor,       \* the run of the assessor: where it is and what it has read
    assessments,    \* how many assess() transactions it has sent that are not mined
    redeemer        \* the run of the redeemer

keeperVars == <<assessor, assessments, redeemer>>
allVars == <<clVars, poolVars, keeperVars>>
ChainUnchanged == UNCHANGED <<clVars, poolVars>>

NoAssessor == [pc |-> "idle", currentTime |-> 0, nextDueTime |-> 0,
               termEndTime |-> 0, limit |-> 0]
NoRedeemer == [pc |-> "idle", events |-> {}, amounts |-> {}, active |-> {}]

KeepersInit ==
    /\ PoolInit
    /\ assessor = NoAssessor
    /\ assessments = 0
    /\ redeemer = NoRedeemer

-----------------------------------------------------------------------------
(* The assessor                                                            *)

GoTo(pc) == assessor' = [assessor EXCEPT !.pc = pc]
Skip == assessor' = NoAssessor

\* A run looks at the pools in the order in which they were created.
StartAssessor == assessor.pc = "idle" /\ GoTo("others")

\* Slip of AfterFailure: an error ends the run.
FailureEndsRun == NoAssessor

\* The error of a pool is caught, and the loop goes on with the next.
AfterFailure == [assessor EXCEPT !.pc = "time"]

\* The pools created before this one are assessed, or one of them fails.
AssessOthers ==
    /\ assessor.pc = "others"
    /\ GoTo("time") \/ assessor' = AfterFailure

ReadTime ==
    /\ assessor.pc = "time"
    /\ assessor' = [assessor EXCEPT !.pc = "due", !.currentTime = now]

ReadNextDueTime ==
    /\ assessor.pc = "due"
    /\ assessor' = [assessor EXCEPT !.pc = "end", !.nextDueTime = nextDueTime]

ReadTermEndTime ==
    /\ assessor.pc = "end"
    /\ assessor' = [assessor EXCEPT !.pc = "limit", !.termEndTime = termEndTime]

\* What a run has read tells it that there is something to assess.
PeriodIsOver(read) ==
    read.currentTime >= read.termEndTime \/ read.currentTime >= read.nextDueTime

\* A line without a limit is closed. One without a due time has its balance read
\* next, for an error that is logged and changes nothing.
ReadLimit ==
    /\ assessor.pc = "limit"
    /\ IF currentLimit > 0 /\ assessor.nextDueTime > 0 /\ PeriodIsOver(assessor)
         THEN GoTo("assess")
         ELSE Skip

AssessorReads ==
    \/ StartAssessor \/ AssessOthers
    \/ ReadTime \/ ReadNextDueTime \/ ReadTermEndTime \/ ReadLimit

SendsAssess == assessor.pc = "assess" /\ Skip

\* tranchedPool.assess() does not revert.
PoolCanAssess ==
    /\ ~paused
    /\ Locked
    /\ totalDeployed > 0
    /\ balance > 0
    /\ CanAssess(usdc)

\* assess() is sent, or the estimate of its gas reverts and the run goes on
\* without it. The run waits for the transaction to be sent, not to be mined.
Assessor ==
    /\ \/ AssessorReads /\ UNCHANGED assessments
       \/ /\ SendsAssess
          /\ assessments' = IF PoolCanAssess /\ assessments < MaxAssessments
                            THEN assessments + 1 ELSE assessments
    /\ ChainUnchanged /\ UNCHANGED redeemer

AssessMined ==
    /\ assessments > 0
    /\ assessments' = assessments - 1
    /\ IF PoolCanAssess THEN PoolAssess ELSE ChainUnchanged
    /\ UNCHANGED <<assessor, redeemer>>

-----------------------------------------------------------------------------
(* The redeemer                                                            *)

\* The tokens that PoolTokens has minted for the senior pool: those of a senior
\* tranche, in which nobody else may deposit.
SeniorTokens == {id \in DOMAIN tokens : tokens[id].tranche[2] = "senior"}

LockedTranche(id) == TrancheOf(id).lockedUntil # 0

\* Slip of AvailableToWithdraw: interest alone, or principal alone, is not enough.
BothAvailable(id) ==
    IF now > TrancheOf(id).lockedUntil /\ InterestRedeemable(id) > 0
    THEN PrincipalRedeemable(id) ELSE 0

\* availableToWithdraw
AvailableToWithdraw(id) ==
    IF now > TrancheOf(id).lockedUntil THEN Redeemable(id) ELSE 0

StartRedeemer ==
    /\ redeemer.pc = "idle"
    /\ redeemer' = [NoRedeemer EXCEPT !.pc = "check", !.events = SeniorTokens]

\* availableToWithdraw(tokenId) for one of the tokens; its error is caught.
CheckAmount(id) ==
    /\ id \in redeemer.events
    /\ redeemer' = [redeemer EXCEPT !.events = @ \ {id},
         !.amounts = IF id \in DOMAIN tokens /\ CanCompute(id) /\ AvailableToWithdraw(id) > 0
                     THEN @ \cup {id} ELSE @]

\* Slip of MayRedeem: whatever has an amount is redeemed.
AnyAmount(id) == TRUE

\* "hasn't drawndown yet" is not redeemed, though its deposit is available.
MayRedeem(id) == id \in DOMAIN tokens /\ LockedTranche(id)

\* getTranche(trancheId) for a token whose amount is not zero.
CheckTranche(id) ==
    /\ id \in redeemer.amounts
    /\ redeemer' = [redeemer EXCEPT !.amounts = @ \ {id},
         !.active = IF MayRedeem(id) THEN @ \cup {id} ELSE @]

\* A run that found nothing is done.
AfterChecks ==
    IF redeemer.active = {} THEN NoRedeemer ELSE [redeemer EXCEPT !.pc = "redeem"]

AllChecked ==
    /\ redeemer.pc = "check"
    /\ redeemer.events = {} /\ redeemer.amounts = {}
    /\ redeemer' = AfterChecks

RedeemerReads ==
    \/ StartRedeemer \/ AllChecked
    \/ \E id \in 1..MaxTokens : CheckAmount(id) \/ CheckTranche(id)

\* All active tokens are sent together and mined in any order.
Answered(id) ==
    /\ redeemer.pc = "redeem"
    /\ id \in redeemer.active
    /\ redeemer' = IF redeemer.active = {id} THEN NoRedeemer
                   ELSE [redeemer EXCEPT !.active = @ \ {id}]

\* withdrawMax(tokenId) has something to pay and the USDC to do so.
CanRedeem(id) ==
    /\ ~paused
    /\ id \in DOMAIN tokens
    /\ now > TrancheOf(id).lockedUntil
    /\ CanCompute(id)
    /\ Redeemable(id) \in 1..cash

\* One of the tokens is redeemed, or its transaction reverts; the errors are put
\* together in one when all are done.
Redeem(id) ==
    /\ Answered(id)
    /\ IF CanRedeem(id) THEN Withdraw(id, Redeemable(id)) ELSE ChainUnchanged

Redeemer ==
    /\ \/ RedeemerReads /\ ChainUnchanged
       \/ \E id \in 1..MaxTokens : Redeem(id)
    /\ UNCHANGED <<assessor, assessments>>

-----------------------------------------------------------------------------

KeepersNext ==
    \/ PoolNext /\ UNCHANGED keeperVars
    \/ Assessor
    \/ AssessMined
    \/ Redeemer

KeepersSpec == KeepersInit /\ [][KeepersNext]_allVars

\* Runs are scheduled again and again, their requests are answered, and the relay
\* has what they send mined. Nobody else has to do anything.
KeepersFairness ==
    /\ WF_assessor(AssessorReads \/ SendsAssess)
    /\ WF_assessments(assessments > 0 /\ assessments' = assessments - 1)
    /\ WF_redeemer(RedeemerReads \/ \E id \in 1..MaxTokens : Answered(id))

FairKeepers == KeepersSpec /\ KeepersFairness
=============================================================================
